---- MODULE Spec2Model ----
(***************************************************************************)
(* Orchestration engine of cli-gpt: the Plan Coordinator                   *)
(* (CoordinatorAgent.executePlan / executeStep / resumePlan, the Plan      *)
(* Store of PlannerAgent) and the single-task Agent Loop                   *)
(* (Agent.executeAgentLoop).  The LLM, the tools, the interactive prompt   *)
(* and the file system are the environment: their answers are drawn from   *)
(* small sets by the actions.                                              *)
(***************************************************************************)
EXTENDS Integers, Sequences, FiniteSets, TLC

\* ------------------------------------------------------------------ bounds
\* Largest number of Steps the planner's LLM puts into a Plan.
MaxSteps == 3
\* Number of execute / resumePlan runs of one behaviour.
MaxRuns == 2
\* Number of savePlan calls of one behaviour that throw.
MaxSaveFaults == 1

\* Number of appendEntry calls of one behaviour of the Session Store alone.
MaxAppends == 6
\* Largest configured contextWindowSize tried for the Session Store alone.
MaxWindow == 4
\* Largest number of step objects in the planner LLM's reply.
MaxRawSteps == 2
\* Longest text given to extractJSON.
MaxText == 5

\* ------------------------------------------------------- program constants
\* plannerAgent.createExecutionPlan: max_attempts: 3
max_attempts == 3
\* Agent constructor: this.maxIterations = 10
maxIterations == 10
\* config.loadConfig defaults: contextWindowSize: 4000
defaultContextWindowSize == 4000
\* config.loadConfig defaults: ragTopK: 3
defaultRagTopK == 3
\* keywordRetrieve: search(query, texts, { threshold: 0.3 }), in tenths
threshold == 3

VARIABLES
  \* ---- Plan Coordinator
  store,            \* the Plan Store record of the plan: its steps, <<>> before creation
  stored,           \* TRUE once the plan file exists
  plan,             \* the in-memory plan.steps of the running (or last) run
  cpc,              \* position of the coordinator
  currentStepIndex, \* executePlan's currentStepIndex (0-based, as in the code)
  aborted,          \* executePlan's aborted
  options,          \* [json, nonInteractive]
  entry,            \* "none" | "execute" | "resume": the entry point of the run
  planStatus,       \* status of the final EXECUTE_PLAN event
  summaryStatus,    \* summary.status of execute's final OUTPUT event
  resultSuccess,    \* executePlan's returned success flag
  runs,             \* number of runs started
  saveFaults,       \* number of savePlan calls that threw
  \* ---- history of the coordinator (observations only, never read by a guard)
  execLog,          \* indices on which executeStep was invoked in this run, in order
  settled,          \* indices whose Step has been seen COMPLETED or SKIPPED
  loopOK,           \* indices (0-based) whose scoped Agent Loop succeeded in this run
  exhausted,        \* index of the Step that failed with attempts = max_attempts in this run, or -1
  \* ---- Agent Loop
  lpc,              \* position of executeAgentLoop
  currentIteration, \* this.currentIteration
  completed,        \* context.completed
  finalOutput,      \* context.finalOutput
  observations,     \* context.observations
  nextAction,       \* thinkResult.nextAction of the running iteration
  actionResult,     \* the ACTION event of the running iteration
  trace,            \* the Mode Events emitted so far
  output,           \* the returned OUTPUT event
  stub,             \* kind of LLM driving the loop (all its THINKs so far concluded CONTINUE)
  llmResponse,      \* what llm.chat did in the running iteration's THINK (cleared by the next phase)
  thinkResult,      \* what thinkPhase made of it (cleared by the next phase)
  toolReturn,       \* what the tool did in the running iteration's ACTION (cleared by OBSERVE)
  \* ---- Session Store
  sessionFile,      \* context_window.jsonl as its lines (text split at "\n"); <<>>: no file
  contextWindowSize,\* config.contextWindowSize
  sessionWritable,  \* FALSE: the session directory cannot be written, appendEntry throws
  appendCount,      \* number of appendEntry calls made
  \* ---- Coordinator front end (execute up to executePlan / fallbackAgent.execute)
  fpc,              \* position of CoordinatorAgent.execute
  classifierReply,  \* what llm.chat did in detectMultiStepTask
  analysis,         \* what detectMultiStepTask returned
  plannerReply,     \* what llm.chat did in createExecutionPlan
  emitted,          \* the Mode Events the Coordinator and its planner emitted, in order
  createdPlan,      \* the Plan createExecutionPlan returned
  planStore,        \* the plan files, by plan_id
  \* ---- Calls in flight (executePlan with the scoped Agent Loop of each Step)
  spc,              \* position of the one async control flow
  sLen,             \* plan.steps.length
  sStep,            \* currentStepIndex
  sIter,            \* currentIteration of the running Step's Agent Loop
  executing,        \* indices of the Steps whose executeStep has not returned
  inFlight,         \* the LLM calls and tool invocations that have not settled
  \* ---- Two independent runs of execute on the same stubs
  runA,             \* the first run: its position, its loop context, its events
  runB,             \* the second run
  \* ---- Retriever
  topK,             \* Retriever.topK
  strategy,         \* Retriever.strategy
  query,            \* the query of the last retrieve call
  retrieved,        \* what the last retrieve call returned
  \* ---- Two coordinators on one plan file
  planFile,         \* the plan file both coordinators load and write: its steps
  coord,            \* per coordinator: position, its copy of the plan, what it loaded
  \* ---- Session ids of one CoordinatorAgent.execute call
  sidCoord,         \* the sessionId the coordinator was constructed with
  sidRoute,         \* "single" or "multi": how execute routes the task
  sidGenerated,     \* how many ids generateSessionId has produced
  sidFallback,      \* the session id of the coordinator's fallbackAgent
  sidLoops,         \* the session ids of the Agent Loops started, in order
  sidFiles,         \* session id -> the entries appended to that session
  sidRead,          \* the entries the last THINK's retrieval had to read from
  sidPc,            \* "idle", "think", "thought" (inside a loop), "done"
  \* ---- Agent.extractJSON
  jText,            \* the text argument: a sequence of characters
  jPc,              \* "call", "scan", "returned"
  startIndex,       \* text.indexOf("{"), 1-based; 0 when there is none
  jI,               \* the loop variable i, 1-based
  scanner,          \* braceCount, inString, escapeNext
  jResult           \* what extractJSON returned

coordVars == <<store, stored, plan, cpc, currentStepIndex, aborted, options, entry,
               planStatus, summaryStatus, resultSuccess, runs, saveFaults,
               execLog, settled, loopOK, exhausted>>
loopVars == <<lpc, currentIteration, completed, finalOutput, observations,
              nextAction, actionResult, trace, output, stub,
              llmResponse, thinkResult, toolReturn>>
sessVars == <<sessionFile, contextWindowSize, sessionWritable, appendCount>>
frontVars == <<fpc, classifierReply, analysis, plannerReply, emitted, createdPlan,
               planStore>>
schedVars == <<spc, sLen, sStep, sIter, executing, inFlight>>
pairVars == <<runA, runB>>
retrVars == <<topK, strategy, query, retrieved>>
raceVars == <<planFile, coord>>
sidVars == <<sidCoord, sidRoute, sidGenerated, sidFallback, sidLoops, sidFiles,
             sidRead, sidPc>>
jsonVars == <<jText, jPc, startIndex, jI, scanner, jResult>>
extraVars == <<raceVars, sidVars, jsonVars>>
vars == <<coordVars, loopVars, sessVars, frontVars, schedVars, pairVars, retrVars,
         extraVars>>

\* ===================================================================
\* Plan Coordinator
\* ===================================================================

Statuses == {"PENDING", "EXECUTING", "COMPLETED", "FAILED", "SKIPPED"}

\* A Step as createExecutionPlan normalises it.
NewStep == [status |-> "PENDING", attempts |-> 0, result |-> "none",
            error |-> "none", skip_reason |-> "none"]

\* plan.steps.map(...) of createExecutionPlan: n normalised Steps.
createExecutionPlan(n) == [i \in 1..n |-> NewStep]

\* What Agent.execute returns to executeStep: the OUTPUT event (completed true
\* or false) or the ERROR event it builds in its catch block.
BasicOutputs ==
  { [mode |-> "OUTPUT", completed |-> TRUE,  error |-> FALSE],
    [mode |-> "OUTPUT", completed |-> FALSE, error |-> FALSE],
    [mode |-> "ERROR",  completed |-> FALSE, error |-> TRUE] }

isStepSuccess(basicOutput) == basicOutput.completed = TRUE /\ ~basicOutput.error

\* plan.steps.findIndex(s => s.status === "PENDING"), 0-based, -1 when none.
findIndexPending(steps) ==
  IF \E i \in 1..Len(steps) : steps[i].status = "PENDING"
  THEN (CHOOSE i \in 1..Len(steps) :
          /\ steps[i].status = "PENDING"
          /\ \A j \in 1..(i-1) : steps[j].status # "PENDING") - 1
  ELSE -1

\* executePlan's start index.
firstStepIndex(steps) ==
  IF findIndexPending(steps) # -1 THEN findIndexPending(steps) ELSE 0

nonInteractive(opts) == opts.json \/ opts.nonInteractive

\* Variant of handlePlanFailure without the non-interactive default: it answers
\* "continue" where the code returns { abort: true }.
handlePlanFailure_NoAbortDefault(opts, choice) ==
  IF nonInteractive(opts) THEN "continue" ELSE choice

\* handlePlanFailure: abort without a prompt; else the user's choice.
handlePlanFailure(opts, choice) ==
  IF nonInteractive(opts) THEN "abort" ELSE choice

\* handleStepError: abort without a prompt; else the user's choice (skip or abort).
handleStepError(opts, choice) ==
  IF nonInteractive(opts) THEN "abort" ELSE choice

PlanFailureChoices == {"skip", "continue", "abort"}
StepErrorChoices == {"skip", "abort"}

CountStatus(steps, s) == Cardinality({i \in 1..Len(steps) : steps[i].status = s})

\* generateExecutionSummary(plan, executionResult).status
generateExecutionSummary(steps, isAborted) ==
  IF isAborted THEN "ABORTED"
  ELSE IF CountStatus(steps, "FAILED") > 0 THEN "COMPLETED_WITH_FAILURES"
  ELSE "COMPLETED_SUCCESSFULLY"

\* executeStep, first half: mark EXECUTING and count the attempt.
executeStepBegin(step) ==
  [step EXCEPT !.status = "EXECUTING", !.attempts = step.attempts + 1]

\* executeStep, second half: the step after basic.execute returned basicOutput.
executeStepEnd(step, basicOutput) ==
  IF isStepSuccess(basicOutput)
  THEN [step EXCEPT !.status = "COMPLETED", !.result = "set"]
  ELSE IF step.attempts < max_attempts
       THEN [step EXCEPT !.error = "set", !.status = "PENDING"]
       ELSE [step EXCEPT !.error = "set", !.status = "FAILED"]

\* savePlan(plan): the record written to the plan file.
savePlan(steps) == steps

\* Variant that still answers retry when the attempts have reached the cap.
stepResultOf_RetryAtCap(step, basicOutput) ==
  IF isStepSuccess(basicOutput) THEN "success"
  ELSE IF step.attempts <= max_attempts THEN "retry"
  ELSE "failed"

\* The stepResult flags executeStep returns.
stepResultOf(step, basicOutput) ==
  IF isStepSuccess(basicOutput) THEN "success"
  ELSE IF step.attempts < max_attempts THEN "retry"
  ELSE "failed"

SettledOf(steps) == {i \in 1..Len(steps) : steps[i].status \in {"COMPLETED", "SKIPPED"}}

CoordInit ==
  /\ store = <<>>
  /\ stored = FALSE
  /\ plan = <<>>
  /\ cpc = "idle"
  /\ currentStepIndex = 0
  /\ aborted = FALSE
  /\ options = [json |-> FALSE, nonInteractive |-> FALSE]
  /\ entry = "none"
  /\ planStatus = "none"
  /\ summaryStatus = "none"
  /\ resultSuccess = FALSE
  /\ runs = 0
  /\ saveFaults = 0
  /\ execLog = <<>>
  /\ settled = {}
  /\ loopOK = {}
  /\ exhausted = -1

\* options.json comes from the command line; options.nonInteractive from a caller.
OptionSets == { [json |-> FALSE, nonInteractive |-> FALSE],
                [json |-> TRUE,  nonInteractive |-> FALSE],
                [json |-> FALSE, nonInteractive |-> TRUE] }

\* The prologue of executePlan, shared by execute and resumePlan.
BeginPlan(steps, opts, how) ==
  /\ plan' = steps
  /\ options' = opts
  /\ entry' = how
  /\ currentStepIndex' = firstStepIndex(steps)
  /\ aborted' = FALSE
  /\ planStatus' = "none"
  /\ summaryStatus' = "none"
  /\ resultSuccess' = FALSE
  /\ runs' = runs + 1
  /\ UNCHANGED saveFaults
  /\ execLog' = <<>>
  /\ loopOK' = {}
  /\ exhausted' = -1
  /\ cpc' = "loop"

\* execute(task) on a task classified multi-step: createExecutionPlan writes the
\* new plan to the Plan Store, then executePlan starts.
ExecuteMultiStep ==
  /\ cpc = "idle"
  /\ ~stored
  /\ runs < MaxRuns
  /\ \E n \in 0..MaxSteps, opts \in OptionSets :
       /\ store' = createExecutionPlan(n)
       /\ stored' = TRUE
       /\ BeginPlan(createExecutionPlan(n), opts, "execute")
  /\ UNCHANGED settled

\* resumePlan(planId): loadPlan reads the stored plan, then executePlan starts.
ResumePlan ==
  /\ cpc \in {"returned", "crashed"}
  /\ stored
  /\ runs < MaxRuns
  /\ \E opts \in OptionSets : BeginPlan(store, opts, "resume")
  /\ UNCHANGED <<store, stored, settled>>

\* while-loop head: a COMPLETED or SKIPPED step is passed over.
SkipDoneStep ==
  /\ cpc = "loop"
  /\ ~aborted
  /\ currentStepIndex < Len(plan)
  /\ plan[currentStepIndex + 1].status \in {"COMPLETED", "SKIPPED"}
  /\ currentStepIndex' = currentStepIndex + 1
  /\ UNCHANGED <<store, stored, plan, cpc, aborted, options, entry, planStatus,
                 summaryStatus, resultSuccess, runs, saveFaults, execLog, settled, loopOK, exhausted>>

\* Variant of executeStep that writes the plan once the Step is marked EXECUTING.
StartStep_SavesFirst ==
  /\ cpc = "loop"
  /\ ~aborted
  /\ currentStepIndex < Len(plan)
  /\ plan[currentStepIndex + 1].status \notin {"COMPLETED", "SKIPPED"}
  /\ plan' = [plan EXCEPT ![currentStepIndex + 1] = executeStepBegin(@)]
  /\ store' = savePlan(plan')
  /\ execLog' = Append(execLog, currentStepIndex)
  /\ cpc' = "agent"
  /\ UNCHANGED <<stored, currentStepIndex, aborted, options, entry, planStatus,
                 summaryStatus, resultSuccess, runs, saveFaults, settled, loopOK, exhausted>>

\* executeStep up to the call of basic.execute.
StartStep ==
  /\ cpc = "loop"
  /\ ~aborted
  /\ currentStepIndex < Len(plan)
  /\ plan[currentStepIndex + 1].status \notin {"COMPLETED", "SKIPPED"}
  /\ plan' = [plan EXCEPT ![currentStepIndex + 1] = executeStepBegin(@)]
  /\ execLog' = Append(execLog, currentStepIndex)
  /\ cpc' = "agent"
  /\ UNCHANGED <<store, stored, currentStepIndex, aborted, options, entry, planStatus,
                 summaryStatus, resultSuccess, runs, saveFaults, settled, loopOK, exhausted>>

\* executePlan applying a handlePlanFailure decision to the failed step k.
applyPlanFailure(steps, k, decision) ==
  IF decision = "skip"
  THEN [steps EXCEPT ![k].status = "SKIPPED", ![k].skip_reason = "set"]
  ELSE steps

\* Variant of the catch block that advances past the step without marking it.
applyStepError_NoFailedMark(steps, k, decision) == steps

\* The catch block applying a handleStepError decision to step k.
applyStepError(steps, k, decision) ==
  IF decision = "skip"
  THEN [steps EXCEPT ![k].status = "FAILED", ![k].error = "set"]
  ELSE steps

\* The loop body once basic.execute has returned basicOutput: executeStep's second
\* half, savePlan (which may throw), the branch on stepResult, and handlePlanFailure
\* or (in the catch block) handleStepError: their decision when they return without
\* a prompt, else up to the prompt.
FinishStep ==
  /\ cpc = "agent"
  /\ \E basicOutput \in BasicOutputs, saveThrows \in BOOLEAN :
       LET k == currentStepIndex + 1
           step == executeStepEnd(plan[k], basicOutput)
           res == stepResultOf(plan[k], basicOutput)
           after == [plan EXCEPT ![k] = step]
           asks == saveThrows \/ res = "failed"
           prompts == asks /\ ~nonInteractive(options)
           decision == IF saveThrows THEN handleStepError(options, "none")
                       ELSE handlePlanFailure(options, "none")
           final == IF ~asks \/ prompts THEN after
                    ELSE IF saveThrows THEN applyStepError(after, k, decision)
                    ELSE applyPlanFailure(after, k, decision)
           advance == IF ~asks THEN res = "success"
                      ELSE IF prompts THEN FALSE
                      ELSE IF saveThrows THEN decision = "skip"
                      ELSE decision \in {"skip", "continue"}
       IN /\ saveThrows => saveFaults < MaxSaveFaults
          /\ saveFaults' = IF saveThrows THEN saveFaults + 1 ELSE saveFaults
          /\ plan' = final
          /\ store' = IF saveThrows THEN store ELSE savePlan(after)
          /\ settled' = settled \cup SettledOf(after) \cup SettledOf(final)
          /\ loopOK' = IF isStepSuccess(basicOutput)
                       THEN loopOK \cup {currentStepIndex} ELSE loopOK
          /\ exhausted' = IF res = "failed" /\ plan[k].attempts = max_attempts
                          THEN currentStepIndex ELSE exhausted
          /\ currentStepIndex' = IF advance THEN currentStepIndex + 1
                                 ELSE currentStepIndex
          /\ aborted' = (asks /\ ~prompts /\ decision = "abort")
          /\ cpc' = IF ~prompts THEN "loop"
                    ELSE IF saveThrows THEN "promptError" ELSE "promptFailure"
  /\ UNCHANGED <<stored, options, entry, planStatus, summaryStatus, resultSuccess,
                 runs, execLog>>

\* The user answers handlePlanFailure's prompt; executePlan applies the decision.
DecidePlanFailure ==
  /\ cpc = "promptFailure"
  /\ \E choice \in PlanFailureChoices :
       LET k == currentStepIndex + 1
           decision == handlePlanFailure(options, choice)
       IN /\ aborted' = (decision = "abort")
          /\ plan' = applyPlanFailure(plan, k, decision)
          /\ currentStepIndex' = IF decision \in {"skip", "continue"}
                                 THEN currentStepIndex + 1 ELSE currentStepIndex
  /\ settled' = settled \cup SettledOf(plan')
  /\ cpc' = "loop"
  /\ UNCHANGED <<store, stored, options, entry, planStatus, summaryStatus,
                 resultSuccess, runs, saveFaults, execLog, loopOK, exhausted>>

\* The user answers handleStepError's prompt; the catch block applies the decision.
DecideStepError ==
  /\ cpc = "promptError"
  /\ \E choice \in StepErrorChoices :
       LET k == currentStepIndex + 1
           decision == handleStepError(options, choice)
       IN /\ aborted' = (decision = "abort")
          /\ plan' = applyStepError(plan, k, decision)
          /\ currentStepIndex' = IF decision = "skip"
                                 THEN currentStepIndex + 1 ELSE currentStepIndex
  /\ cpc' = "loop"
  /\ UNCHANGED <<store, stored, options, entry, planStatus, summaryStatus,
                 resultSuccess, runs, saveFaults, execLog, settled, loopOK, exhausted>>

\* The loop has ended: the final EXECUTE_PLAN event, executePlan's return value and,
\* for execute, executeMultiStepTask's OUTPUT event with the summary.
FinishPlan ==
  /\ cpc = "loop"
  /\ (aborted \/ currentStepIndex >= Len(plan))
  /\ planStatus' = IF aborted THEN "ABORTED" ELSE "COMPLETED"
  /\ resultSuccess' = (~aborted /\ CountStatus(plan, "FAILED") = 0)
  /\ summaryStatus' = IF entry = "execute"
                      THEN generateExecutionSummary(plan, aborted) ELSE "none"
  /\ cpc' = "returned"
  /\ UNCHANGED <<store, stored, plan, currentStepIndex, aborted, options, entry, runs, saveFaults,
                 execLog, settled, loopOK, exhausted>>

\* An external interrupt ends the process: the in-memory plan and the run's
\* locals are gone, only the Plan Store survives.
Crash ==
  /\ cpc \in {"loop", "agent", "promptFailure", "promptError"}
  /\ cpc' = "crashed"
  /\ plan' = <<>>
  /\ currentStepIndex' = 0
  /\ aborted' = FALSE
  /\ execLog' = <<>>
  /\ loopOK' = {}
  /\ exhausted' = -1
  /\ UNCHANGED <<store, stored, options, entry, planStatus, summaryStatus,
                 resultSuccess, runs, saveFaults, settled>>

\* ===================================================================
\* Agent Loop (Agent.execute / executeAgentLoop)
\* ===================================================================

\* Tools the LLM may name: two that shouldContinueExecution treats as final,
\* one ordinary registered tool, and a name the registry does not know.
ToolNames == {"listDirectory", "readFile", "executeCommand", "noSuchTool"}
RegisteredTools == {"listDirectory", "readFile", "executeCommand"}

\* What a tool invocation does: returns {success: true}, {success: false}, an
\* object without a success field, nothing (undefined), or throws.
ToolReturns == {"successTrue", "successFalse", "noSuccessField", "undefined", "throws"}

\* Error messages, by the substring isRecoverableError looks for ("other": none).
recoverableErrors == {"ENOENT", "EACCES", "ETIMEDOUT", "Command failed",
                      "OpenAIError", "RateLimitError"}
Messages == {"RateLimitError", "ETIMEDOUT", "other"}

\* Variant that takes every error for a recoverable one.
isRecoverableError_Always(message) == TRUE

isRecoverableError(message) == message \in recoverableErrors

\* What llm.chat does in thinkPhase: returns text holding a JSON object with a
\* conclusion and a nextAction, text without any JSON object, text whose
\* brace-balanced part is not valid JSON, or throws.
\* A COMPLETE reply carries an output ("done") or none ("null").
LLMResponses ==
  [kind : {"json"}, conclusion : {"COMPLETE"}, tool : {"null"}, message : {"none"},
   output : {"done", "null"}]
  \cup [kind : {"json"}, conclusion : {"CONTINUE"}, tool : ToolNames \cup {"null"},
        message : {"none"}, output : {"null"}]
  \cup [kind : {"nojson", "badjson"}, conclusion : {"none"}, tool : {"null"},
        message : {"none"}, output : {"null"}]
  \cup [kind : {"throws"}, conclusion : {"none"}, tool : {"null"}, message : Messages,
        output : {"null"}]

\* Variant of the parser that loses the output field of the parsed object.
parseThinkingResponse_DropsOutput(response) ==
  IF response.kind = "json"
  THEN [ok |-> TRUE, conclusion |-> response.conclusion, nextAction |-> response.tool,
        confidence |-> "high", output |-> "null", message |-> "none"]
  ELSE IF response.kind = "nojson"
  THEN [ok |-> TRUE, conclusion |-> "CONTINUE", nextAction |-> "null",
        confidence |-> "low", output |-> "null", message |-> "none"]
  ELSE [ok |-> FALSE, conclusion |-> "none", nextAction |-> "null",
        confidence |-> "none", output |-> "null", message |-> "other"]

\* parseThinkingResponse: the parsed object, the fallback for text without JSON,
\* or the error JSON.parse raises.
parseThinkingResponse(response) ==
  IF response.kind = "json"
  THEN [ok |-> TRUE, conclusion |-> response.conclusion, nextAction |-> response.tool,
        confidence |-> "high",
        output |-> response.output,
        message |-> "none"]
  ELSE IF response.kind = "nojson"
  THEN [ok |-> TRUE, conclusion |-> "CONTINUE", nextAction |-> "null",
        confidence |-> "low", output |-> "null", message |-> "none"]
  ELSE [ok |-> FALSE, conclusion |-> "none", nextAction |-> "null",
        confidence |-> "none", output |-> "null", message |-> "other"]

\* thinkPhase: the THINK event, or the error it throws (llm.chat's or the parser's).
thinkPhase(response) ==
  IF response.kind = "throws"
  THEN [ok |-> FALSE, conclusion |-> "none", nextAction |-> "null",
        confidence |-> "none", output |-> "null", message |-> response.message]
  ELSE parseThinkingResponse(response)

\* Variant of actionPhase that reports success unless the tool said success: false.
actionPhase_FailureAsSuccess(tool, ret) ==
  [tool |-> tool, success |-> ret # "successFalse", result |-> ret]

\* actionPhase: the ACTION event; an unknown tool or a throwing tool gives a
\* failed event, success is result && result.success !== false.
actionPhase(tool, ret) ==
  IF tool \notin RegisteredTools \/ ret = "throws"
  THEN [tool |-> tool, success |-> FALSE, result |-> "null"]
  ELSE [tool |-> tool,
        success |-> ret \in {"successTrue", "noSuccessField"},
        result |-> ret]

\* shouldContinueExecution(actionResult, context)
shouldContinueExecution(action, obs, iteration) ==
  IF ~action.success THEN Len(obs) < 3
  ELSE IF action.tool = "listDirectory" /\ action.result = "successTrue" THEN FALSE
  ELSE IF action.tool = "readFile" /\ action.result = "successTrue" THEN FALSE
  ELSE iteration < 3

\* extractFinalOutput(actionResult, context)
extractFinalOutput(action) ==
  IF action.result = "successTrue" THEN "toolResult" ELSE "taskCompleted"

\* A Mode Event: its mode, its conclusion / success / status, and for THINK its output.
Event(mode, tag) == [mode |-> mode, tag |-> tag, out |-> "null"]
ThinkEvent(conclusion, out) == [mode |-> "THINK", tag |-> conclusion, out |-> out]

NoResponse == [kind |-> "none", conclusion |-> "none", tool |-> "null",
               message |-> "none", output |-> "null"]
NoThink == [ok |-> TRUE, conclusion |-> "none", nextAction |-> "null",
            confidence |-> "none", output |-> "null", message |-> "none"]

NoAction == [tool |-> "null", success |-> FALSE, result |-> "null"]

LoopIdle ==
  /\ lpc = "idle"
  /\ currentIteration = 0
  /\ completed = FALSE
  /\ finalOutput = "null"
  /\ observations = <<>>
  /\ nextAction = "null"
  /\ actionResult = NoAction
  /\ trace = <<>>
  /\ output = [mode |-> "none", completed |-> FALSE, iterations |-> 0,
               finalOutput |-> "null"]
  /\ stub = "continue"
  /\ llmResponse = NoResponse
  /\ thinkResult = NoThink
  /\ toolReturn = "none"

\* Variant of the loop's test that admits one iteration more.
loopGuard_OffByOne(done, iteration) == ~done /\ iteration <= maxIterations

\* Variant of the loop's test that does not look at context.completed.
loopGuard_IgnoresCompleted(done, iteration) == iteration < maxIterations

\* The loop's test: while (!context.completed && currentIteration < maxIterations)
loopGuard(done, iteration) == ~done /\ iteration < maxIterations

\* execute(task): currentIteration = 0, a fresh context, and the START event.
StartMode ==
  /\ lpc = "idle"
  /\ currentIteration' = 0
  /\ trace' = <<Event("START", "task")>>
  /\ lpc' = "top"
  /\ UNCHANGED <<completed, finalOutput, observations, nextAction, actionResult,
                 output, stub, llmResponse, thinkResult, toolReturn>>

\* One THINK: the iteration counter, thinkPhase, its event, and the branch on the
\* conclusion; or the catch block when thinkPhase throws.
ThinkMode ==
  /\ lpc = "top"
  /\ loopGuard(completed, currentIteration)
  /\ currentIteration' = currentIteration + 1
  /\ \E response \in LLMResponses :
       LET think == thinkPhase(response)
       IN /\ stub' = IF response.kind = "json" /\ response.conclusion = "CONTINUE"
                     THEN stub ELSE "other"
          /\ llmResponse' = response
          /\ thinkResult' = think
          /\ IF think.ok
             THEN /\ trace' = Append(trace, ThinkEvent(think.conclusion, think.output))
                  /\ completed' = IF think.conclusion = "COMPLETE" THEN TRUE
                                  ELSE completed
                  /\ finalOutput' = IF think.conclusion = "COMPLETE"
                                    THEN think.output ELSE finalOutput
                  /\ nextAction' = think.nextAction
                  /\ lpc' = IF think.conclusion # "COMPLETE" /\ think.nextAction # "null"
                            THEN "action" ELSE "top"
                  /\ UNCHANGED <<observations, output>>
             ELSE /\ trace' = Append(trace,
                      Event("ERROR", IF isRecoverableError(think.message)
                                     THEN "recoverable" ELSE "fatal"))
                  /\ IF isRecoverableError(think.message)
                     THEN /\ observations' = Append(observations, "error")
                          /\ lpc' = "top"
                          /\ UNCHANGED output
                     ELSE /\ lpc' = "threw"
                          /\ output' = [mode |-> "ERROR", completed |-> FALSE,
                                        iterations |-> currentIteration + 1,
                                        finalOutput |-> "null"]
                          /\ UNCHANGED observations
                  /\ UNCHANGED <<completed, finalOutput, nextAction>>
  /\ UNCHANGED <<actionResult, toolReturn>>

\* ACTION: the tool is invoked and the ACTION event emitted.
ActionMode ==
  /\ lpc = "action"
  /\ \E ret \in ToolReturns :
       /\ actionResult' = actionPhase(nextAction, ret)
       /\ trace' = Append(trace, Event("ACTION",
                      IF actionPhase(nextAction, ret).success THEN "success" ELSE "failure"))
       /\ toolReturn' = ret
  /\ llmResponse' = NoResponse
  /\ thinkResult' = NoThink
  /\ lpc' = "observe"
  /\ UNCHANGED <<currentIteration, completed, finalOutput, observations, nextAction,
                 output, stub>>

\* OBSERVE: observePhase, its event, and the update of the context; the
\* iteration's thinkResult and actionResult go out of scope.
ObserveMode ==
  /\ lpc = "observe"
  /\ LET goOn == shouldContinueExecution(actionResult, observations, currentIteration)
     IN /\ trace' = Append(trace, Event("OBSERVE", IF goOn THEN "CONTINUE" ELSE "COMPLETE"))
        /\ observations' = Append(observations,
                             IF actionResult.success THEN "success" ELSE "failure")
        /\ completed' = IF goOn THEN completed ELSE TRUE
        /\ finalOutput' = IF goOn THEN finalOutput ELSE extractFinalOutput(actionResult)
  /\ nextAction' = "null"
  /\ actionResult' = NoAction
  /\ toolReturn' = "none"
  /\ lpc' = "top"
  /\ UNCHANGED <<currentIteration, output, stub, llmResponse, thinkResult>>

\* OUTPUT: the loop has ended; the OUTPUT event is emitted and returned.
OutputMode ==
  /\ lpc = "top"
  /\ ~loopGuard(completed, currentIteration)
  /\ output' = [mode |-> "OUTPUT", completed |-> completed,
                iterations |-> currentIteration,
                finalOutput |-> IF finalOutput = "null" THEN "Task execution completed"
                                ELSE finalOutput]
  /\ trace' = Append(trace, Event("OUTPUT", IF completed THEN "completed" ELSE "incomplete"))
  /\ llmResponse' = NoResponse
  /\ thinkResult' = NoThink
  /\ lpc' = "done"
  /\ UNCHANGED <<currentIteration, completed, finalOutput, observations, nextAction,
                 actionResult, stub, toolReturn>>

\* ===================================================================
\* Session Store (SessionManager)
\* ===================================================================

\* A line of the file is the sequence of the entries serialised into it: <<>> is
\* the empty string, <<e>> one JSON.stringify(e), a longer one their concatenation.
EmptyLine == <<>>

\* Variant of appendFile that puts the new line before the text already there.
appendFile_AtStart(file, obj) ==
  LET lines == IF file = <<>> THEN <<EmptyLine>> ELSE file
  IN <<(<<obj>>)>> \o lines

\* fs.appendFile(fp, JSON.stringify(obj) + "\n"): the text goes after the last
\* character of the file (creating it), so it extends the last line and opens a
\* new, empty one.
appendFile(file, obj) ==
  LET lines == IF file = <<>> THEN <<EmptyLine>> ELSE file
  IN Append([lines EXCEPT ![Len(lines)] = Append(@, obj)], EmptyLine)

\* Variant of pruneIfNeeded that never rewrites the file.
pruneIfNeeded_NoTrim(file, maxLines) == file

\* pruneIfNeeded(sessionId, maxLines): split("\n"), slice(-maxLines), join("\n").
pruneIfNeeded(file, maxLines) ==
  IF maxLines <= 0 THEN file
  ELSE IF file = <<>> THEN file
  ELSE IF Len(file) > maxLines
       THEN SubSeq(file, Len(file) - maxLines + 1, Len(file))
       ELSE file

\* appendEntry(sessionId, obj)
appendEntry(file, obj, maxLines) == pruneIfNeeded(appendFile(file, obj), maxLines)

\* readEntries(sessionId): split(/\n+/).filter(Boolean), JSON.parse of each line,
\* { raw: line } for a line that does not parse.
readEntries(file) ==
  LET kept == SelectSeq(file, LAMBDA line : line # EmptyLine)
  IN [i \in 1..Len(kept) |->
        IF Len(kept[i]) = 1 THEN kept[i][1] ELSE [raw |-> kept[i]]]

\* clear(sessionId): an existing file is truncated to "".
clear(file) == IF file = <<>> THEN file ELSE <<EmptyLine>>

\* The persisting half of Agent.outputResult: appendEntry in a try whose catch
\* ignores the error, so a failed append leaves the file as it was.
outputResult(file, event, writable, maxLines) ==
  IF writable THEN appendEntry(file, event, maxLines) ELSE file

\* The objects callers append: Mode Events, numbered by the call that appends them.
SessionPayloads == {"THINK", "ACTION", "OBSERVE"}
SessionEntry(n, mode) == [n |-> n, mode |-> mode]

\* Spec and LoopSpec: no session file yet, the default window, a writable directory.
SessIdle ==
  /\ sessionFile = <<>>
  /\ contextWindowSize = defaultContextWindowSize
  /\ sessionWritable = TRUE
  /\ appendCount = 0

\* The Session Store alone: a positive configured window.
SessInit ==
  /\ sessionFile = <<>>
  /\ contextWindowSize \in 1..MaxWindow
  /\ sessionWritable = TRUE
  /\ appendCount = 0

\* The Agent Loop with its session: a small window or the default one, and a
\* session directory that can or cannot be written.
SessLoopInit ==
  /\ sessionFile = <<>>
  /\ \/ sessionWritable = TRUE /\ contextWindowSize \in {MaxWindow, defaultContextWindowSize}
     \/ sessionWritable = FALSE /\ contextWindowSize = defaultContextWindowSize
  /\ appendCount = 0

\* The loop with a session directory that cannot be written.
SessFaultInit ==
  /\ sessionFile = <<>>
  /\ sessionWritable = FALSE
  /\ contextWindowSize = defaultContextWindowSize
  /\ appendCount = 0

\* Variant of the persisting step in which a failed append is not caught: the
\* phase that emitted the event does not return.
Persist_Uncaught ==
  /\ sessionWritable
  /\ sessionFile' = outputResult(sessionFile, trace'[Len(trace')], sessionWritable,
                                 contextWindowSize)
  /\ appendCount' = appendCount + 1
  /\ UNCHANGED <<contextWindowSize, sessionWritable>>

\* outputResult(result) of the loop: the event just emitted goes to the session.
Persist ==
  /\ sessionFile' = outputResult(sessionFile, trace'[Len(trace')], sessionWritable,
                                 contextWindowSize)
  /\ appendCount' = appendCount + 1
  /\ UNCHANGED <<contextWindowSize, sessionWritable>>

AppendEntry ==
  /\ appendCount < MaxAppends
  /\ \E mode \in SessionPayloads :
       sessionFile' = appendEntry(sessionFile, SessionEntry(appendCount + 1, mode),
                                  contextWindowSize)
  /\ appendCount' = appendCount + 1
  /\ UNCHANGED <<contextWindowSize, sessionWritable>>

ClearSession ==
  /\ sessionFile' = clear(sessionFile)
  /\ sessionFile' # sessionFile
  /\ UNCHANGED <<contextWindowSize, sessionWritable, appendCount>>

\* ===================================================================
\* Coordinator front end (CoordinatorAgent.execute, PlannerAgent)
\* ===================================================================

\* What llm.chat does in detectMultiStepTask: throws, returns text without a
\* JSON object, text whose brace-balanced part is not valid JSON, or a JSON
\* object with whatever the LLM put into it.
ClassifierReplies ==
  [kind : {"throws", "nojson", "badjson"}, isMultiStep : {FALSE},
   complexity : {"low"}, estimatedSteps : {1}]
  \cup [kind : {"json"}, isMultiStep : BOOLEAN, complexity : {"low", "high"},
        estimatedSteps : {1, 3}]

NoClassifierReply ==
  [kind |-> "none", isMultiStep |-> FALSE, complexity |-> "low", estimatedSteps |-> 1]

\* Variant of the classifier that sends a failed analysis down the planning path.
detectMultiStepTask_FailsToMulti(reply) ==
  IF reply.kind = "json"
  THEN [isMultiStep |-> reply.isMultiStep, reasoning |-> "llm",
        complexity |-> reply.complexity, estimatedSteps |-> reply.estimatedSteps]
  ELSE [isMultiStep |-> TRUE, reasoning |-> "Analysis failed",
        complexity |-> "low", estimatedSteps |-> 1]

\* detectMultiStepTask(task): the parsed object, the default for text without
\* JSON, or the default of the catch block (llm.chat or JSON.parse threw).
detectMultiStepTask(reply) ==
  IF reply.kind = "json"
  THEN [isMultiStep |-> reply.isMultiStep, reasoning |-> "llm",
        complexity |-> reply.complexity, estimatedSteps |-> reply.estimatedSteps]
  ELSE IF reply.kind = "nojson"
  THEN [isMultiStep |-> FALSE, reasoning |-> "Failed to analyze",
        complexity |-> "low", estimatedSteps |-> 1]
  ELSE [isMultiStep |-> FALSE, reasoning |-> "Analysis failed",
        complexity |-> "low", estimatedSteps |-> 1]

\* A step object as the LLM wrote it: the fields createExecutionPlan overwrites
\* or defaults. -1 and "absent" stand for a field the LLM left out.
RawSteps ==
  [status : {"absent", "COMPLETED"}, attempts : {-1, 2}, max_attempts : {-1, 5},
   tool : {"absent", "readFile"}]

RawPlans == UNION { [1..n -> RawSteps] : n \in 0..MaxRawSteps }

\* What llm.chat does in createExecutionPlan: throws, text without JSON, invalid
\* JSON, an object without steps, an object whose steps is not an array, or an
\* object with a steps array and possibly a plan_id.
PlannerReplies ==
  [kind : {"throws", "nojson", "badjson", "noSteps", "stepsNotArray"},
   plan_id : {"absent"}, steps : {<<>>}]
  \cup [kind : {"json"}, plan_id : {"absent", "p1"}, steps : RawPlans]

NoPlannerReply == [kind |-> "none", plan_id |-> "absent", steps |-> <<>>]

\* The names of plan files: the uuid generated in this run, an id the LLM
\* writes into its reply, and the uuid generated by an earlier run.
PlanIds == {"uuid", "p1", "uuid0"}

\* Variant of the normalisation that keeps what the LLM supplied.
normalizeStep_KeepsSupplied(step) ==
  [status |-> IF step.status = "absent" THEN "PENDING" ELSE step.status,
   attempts |-> IF step.attempts = -1 THEN 0 ELSE step.attempts,
   max_attempts |-> IF step.max_attempts = -1 THEN max_attempts ELSE step.max_attempts,
   tool |-> IF step.tool = "absent" THEN "executeCommand" ELSE step.tool]

\* The body of plan.steps.map(...): status, attempts and max_attempts are set,
\* tool is defaulted.
normalizeStep(step) ==
  [status |-> "PENDING",
   attempts |-> 0,
   max_attempts |-> max_attempts,
   tool |-> IF step.tool = "absent" THEN "executeCommand" ELSE step.tool]

\* Variant of the planner's parsing that answers a reply without a usable steps
\* array with an empty plan.
parsePlanResponse_EmptyOnFailure(reply) ==
  IF reply.kind \in {"throws", "badjson"}
  THEN [ok |-> FALSE, plan_id |-> "none", steps |-> <<>>]
  ELSE [ok |-> TRUE,
        plan_id |-> IF reply.plan_id = "absent" THEN "uuid" ELSE reply.plan_id,
        steps |-> [i \in 1..Len(reply.steps) |-> normalizeStep(reply.steps[i])]]

\* createExecutionPlan from the LLM's reply to the normalised plan: extractJSON,
\* JSON.parse, the plan_id default, the steps check and the normalisation; not ok
\* stands for the error thrown.
parsePlanResponse(reply) ==
  IF reply.kind = "json"
  THEN [ok |-> TRUE,
        plan_id |-> IF reply.plan_id = "absent" THEN "uuid" ELSE reply.plan_id,
        steps |-> [i \in 1..Len(reply.steps) |-> normalizeStep(reply.steps[i])]]
  ELSE [ok |-> FALSE, plan_id |-> "none", steps |-> <<>>]

NoPlan == [exists |-> FALSE, plan_id |-> "none", steps |-> <<>>]
NoFile == [exists |-> FALSE, steps |-> <<>>]

FrontIdle ==
  /\ fpc = "idle"
  /\ classifierReply = NoClassifierReply
  /\ analysis = detectMultiStepTask(NoClassifierReply)
  /\ plannerReply = NoPlannerReply
  /\ emitted = <<>>
  /\ createdPlan = NoPlan
  /\ planStore = [id \in PlanIds |-> NoFile]

\* A plan file left by an earlier run: its one Step was executed.
EarlierPlanFile ==
  [exists |-> TRUE,
   steps |-> <<[status |-> "COMPLETED", attempts |-> 1, max_attempts |-> max_attempts,
                tool |-> "readFile"]>>]

\* execute called with plans of earlier runs in the plan directory: one whose
\* plan_id the LLM had supplied, one whose plan_id had been generated, or both.
FrontStoreIdle ==
  /\ fpc = "idle"
  /\ classifierReply = NoClassifierReply
  /\ analysis = detectMultiStepTask(NoClassifierReply)
  /\ plannerReply = NoPlannerReply
  /\ emitted = <<>>
  /\ createdPlan = NoPlan
  /\ planStore \in { [id \in PlanIds |-> IF id \in present THEN EarlierPlanFile ELSE NoFile] :
                       present \in (SUBSET {"p1", "uuid0"}) \ {{}} }

\* CoordinatorAgent.outputResult only prints: the session is not touched.
coordinatorOutputResult(file, event) == file

\* execute(task): the classification, the ANALYZE event and the routing.
Analyze ==
  /\ fpc = "idle"
  /\ \E reply \in ClassifierReplies :
       /\ classifierReply' = reply
       /\ analysis' = detectMultiStepTask(reply)
       /\ emitted' = <<Event("ANALYZE",
                        IF detectMultiStepTask(reply).isMultiStep THEN "multi"
                        ELSE "single")>>
       /\ sessionFile' = coordinatorOutputResult(sessionFile, emitted'[1])
       /\ fpc' = IF detectMultiStepTask(reply).isMultiStep THEN "multi" ELSE "single"
  /\ UNCHANGED <<plannerReply, createdPlan, planStore>>
  /\ UNCHANGED <<contextWindowSize, sessionWritable, appendCount>>

\* executeSingleStepTask: the SINGLE_STEP event, then fallbackAgent.execute.
ExecuteSingleStepTask ==
  /\ fpc = "single"
  /\ emitted' = Append(emitted, Event("SINGLE_STEP", "EXECUTING"))
  /\ sessionFile' = coordinatorOutputResult(sessionFile, Event("SINGLE_STEP", "EXECUTING"))
  /\ fpc' = "agent"
  /\ UNCHANGED <<classifierReply, analysis, plannerReply, createdPlan, planStore>>
  /\ UNCHANGED <<contextWindowSize, sessionWritable, appendCount>>

\* executeMultiStepTask, createExecutionPlan up to llm.chat: the PLAN CREATING
\* event, emitted through Agent.outputResult.
BeginCreatePlan ==
  /\ fpc = "multi"
  /\ emitted' = Append(emitted, Event("PLAN", "CREATING"))
  /\ sessionFile' = outputResult(sessionFile, Event("PLAN", "CREATING"),
                                 sessionWritable, contextWindowSize)
  /\ appendCount' = appendCount + 1
  /\ fpc' = "planning"
  /\ UNCHANGED <<classifierReply, analysis, plannerReply, createdPlan, planStore>>
  /\ UNCHANGED <<contextWindowSize, sessionWritable>>

\* createExecutionPlan from the LLM's reply on: the plan is normalised, written
\* and returned with a PLAN CREATED event, or the error (of llm.chat, of the
\* parsing, of writeJson) gives a PLAN FAILED event and is thrown through
\* executeMultiStepTask to execute, whose catch emits ERROR and rethrows.
FinishCreatePlan ==
  /\ fpc = "planning"
  /\ \E reply \in PlannerReplies, written \in BOOLEAN :
       LET parsed == parsePlanResponse(reply)
       IN /\ plannerReply' = reply
          /\ IF parsed.ok /\ written
             THEN /\ planStore' = [planStore EXCEPT ![parsed.plan_id] =
                                     [exists |-> TRUE, steps |-> parsed.steps]]
                  /\ createdPlan' = [exists |-> TRUE, plan_id |-> parsed.plan_id,
                                     steps |-> parsed.steps]
                  /\ emitted' = Append(emitted, Event("PLAN", "CREATED"))
                  /\ sessionFile' = outputResult(sessionFile, Event("PLAN", "CREATED"),
                                                 sessionWritable, contextWindowSize)
                  /\ fpc' = "executePlan"
             ELSE /\ emitted' = emitted \o <<Event("PLAN", "FAILED"),
                                              Event("ERROR", "fatal")>>
                  /\ sessionFile' = coordinatorOutputResult(
                                       outputResult(sessionFile, Event("PLAN", "FAILED"),
                                                    sessionWritable, contextWindowSize),
                                       Event("ERROR", "fatal"))
                  /\ fpc' = "threw"
                  /\ UNCHANGED <<createdPlan, planStore>>
  /\ appendCount' = appendCount + 1
  /\ UNCHANGED <<classifierReply, analysis>>
  /\ UNCHANGED <<contextWindowSize, sessionWritable>>

\* ===================================================================
\* Calls in flight (executePlan, executeStep, executeAgentLoop)
\* ===================================================================

\* An asynchronous call that has been issued: the Step and the iteration that
\* issued it, and what it is (THINK's llm.chat, a tool, OUTPUT's curateOutput).
Call(step, iteration, kind) == [step |-> step, iter |-> iteration, kind |-> kind]

\* Variant of await in which the caller goes on without waiting.
await_NotAwaited(call, pending) == TRUE

\* await: the caller resumes only once the call has settled.
await(call, pending) == call \notin pending

SchedIdle ==
  /\ spc = "idle"
  /\ sLen = 0
  /\ sStep = 0
  /\ sIter = 0
  /\ executing = {}
  /\ inFlight = {}

\* executePlan called on a Plan of 1..MaxSteps Steps, all to be executed.
SchedInit ==
  /\ spc = "loop"
  /\ sLen \in 1..MaxSteps
  /\ sStep = 0
  /\ sIter = 0
  /\ executing = {}
  /\ inFlight = {}

\* while (currentStepIndex < plan.steps.length): executeStep is called, marks
\* the Step EXECUTING and starts its scoped Agent Loop.
SchedStepCall ==
  /\ spc = "loop"
  /\ sStep < sLen
  /\ executing' = executing \cup {sStep}
  /\ sIter' = 0
  /\ spc' = "top"
  /\ UNCHANGED <<sLen, sStep, inFlight>>

\* The loop's test passes: THINK issues llm.chat.
SchedThinkCall ==
  /\ spc = "top"
  /\ loopGuard(FALSE, sIter)
  /\ sIter' = sIter + 1
  /\ inFlight' = inFlight \cup {Call(sStep, sIter + 1, "think")}
  /\ spc' = "think"
  /\ UNCHANGED <<sLen, sStep, executing>>

\* A call in flight settles (the service answers or fails).
SchedSettle ==
  /\ \E call \in inFlight : inFlight' = inFlight \ {call}
  /\ UNCHANGED <<spc, sLen, sStep, sIter, executing>>

\* await this.llm.chat(...) in thinkPhase returns: COMPLETE, a nextAction, or
\* neither.
SchedThinkResume ==
  /\ spc = "think"
  /\ await(Call(sStep, sIter, "think"), inFlight)
  /\ \E then \in {"output", "action", "top"} : spc' = then
  /\ UNCHANGED <<sLen, sStep, sIter, executing, inFlight>>

\* ACTION invokes the tool.
SchedToolCall ==
  /\ spc = "action"
  /\ inFlight' = inFlight \cup {Call(sStep, sIter, "tool")}
  /\ spc' = "tool"
  /\ UNCHANGED <<sLen, sStep, sIter, executing>>

\* await toolFunction(...) returns; OBSERVE continues or completes.
SchedToolResume ==
  /\ spc = "tool"
  /\ await(Call(sStep, sIter, "tool"), inFlight)
  /\ \E then \in {"output", "top"} : spc' = then
  /\ UNCHANGED <<sLen, sStep, sIter, executing, inFlight>>

\* The loop's test fails on the iteration cap.
SchedLoopEnd ==
  /\ spc = "top"
  /\ ~loopGuard(FALSE, sIter)
  /\ spc' = "output"
  /\ UNCHANGED <<sLen, sStep, sIter, executing, inFlight>>

\* OUTPUT: curateOutput issues its llm.chat.
SchedCurateCall ==
  /\ spc = "output"
  /\ inFlight' = inFlight \cup {Call(sStep, sIter, "curate")}
  /\ spc' = "curate"
  /\ UNCHANGED <<sLen, sStep, sIter, executing>>

\* curateOutput returns, the Agent Loop returns, executeStep sets the Step's
\* status and returns to executePlan, which goes to the next Step.
SchedStepReturn ==
  /\ spc = "curate"
  /\ await(Call(sStep, sIter, "curate"), inFlight)
  /\ executing' = executing \ {sStep}
  /\ sStep' = sStep + 1
  /\ spc' = "loop"
  /\ UNCHANGED <<sLen, sIter, inFlight>>

\* The Steps are exhausted: executePlan returns.
SchedPlanReturn ==
  /\ spc = "loop"
  /\ sStep >= sLen
  /\ spc' = "returned"
  /\ UNCHANGED <<sLen, sStep, sIter, executing, inFlight>>

\* ===================================================================
\* Two runs of CoordinatorAgent.execute on the same task and the same stubs
\* ===================================================================

\* The stubs' answers tried for the two runs: a part of LLMResponses and of
\* ToolReturns.
PairLLMResponses ==
  { r \in LLMResponses :
      \/ r.kind = "nojson"
      \/ r.kind = "throws" /\ r.message \in {"RateLimitError", "other"}
      \/ r.kind = "json" /\ r.conclusion = "COMPLETE" /\ r.output = "done"
      \/ r.kind = "json" /\ r.conclusion = "CONTINUE" /\ r.tool \in {"readFile", "null"} }
PairToolReturns == {"successTrue", "successFalse", "throws"}

\* A PLAN or EXECUTE_PLAN event: its status and the plan's id.
PlanEvent(mode, tag, id) == [mode |-> mode, tag |-> tag, out |-> id]

\* Variant of the plan_id assignment that always generates an id.
planIdOf_AlwaysFresh(reply, fresh) == fresh

\* if (!plan.plan_id) plan.plan_id = uuidv4(): fresh is what uuidv4 returns in
\* this run.
planIdOf(reply, fresh) == IF reply.plan_id = "absent" THEN fresh ELSE reply.plan_id

\* A run before execute is called.
NewRun ==
  [pc |-> "idle", iter |-> 0, completed |-> FALSE, finalOutput |-> "null",
   observations |-> <<>>, nextAction |-> "null", actionResult |-> NoAction,
   events |-> <<>>, planId |-> "none", generated |-> FALSE]

FrontPcs == {"idle", "single", "multi", "planning", "executePlan"}
LoopPcs == {"top", "action", "observe"}

\* One step of execute up to the hand-off: the classification and ANALYZE,
\* SINGLE_STEP and the loop's START, PLAN CREATING, the plan's creation, and
\* executePlan's EXECUTE_PLAN STARTING event.
runFront(run, fresh, creply, preply) ==
  IF run.pc = "idle"
  THEN [run EXCEPT
          !.events = <<Event("ANALYZE", IF detectMultiStepTask(creply).isMultiStep
                                        THEN "multi" ELSE "single")>>,
          !.pc = IF detectMultiStepTask(creply).isMultiStep THEN "multi" ELSE "single"]
  ELSE IF run.pc = "single"
  THEN [run EXCEPT
          !.events = run.events \o <<Event("SINGLE_STEP", "EXECUTING"),
                                     Event("START", "task")>>,
          !.pc = "top"]
  ELSE IF run.pc = "multi"
  THEN [run EXCEPT !.events = Append(run.events, Event("PLAN", "CREATING")),
                   !.pc = "planning"]
  ELSE IF run.pc = "planning"
  THEN IF parsePlanResponse(preply).ok
       THEN [run EXCEPT
               !.planId = planIdOf(preply, fresh),
               !.generated = (preply.plan_id = "absent"),
               !.events = Append(run.events,
                                 PlanEvent("PLAN", "CREATED", planIdOf(preply, fresh))),
               !.pc = "executePlan"]
       ELSE [run EXCEPT
               !.events = run.events \o <<Event("PLAN", "FAILED"),
                                          Event("ERROR", "fatal")>>,
               !.pc = "threw"]
  ELSE IF run.pc = "executePlan"
  THEN [run EXCEPT
          !.events = Append(run.events,
                            PlanEvent("EXECUTE_PLAN", "STARTING", run.planId)),
          !.pc = "steps"]
  ELSE run

\* One phase of the Agent Loop of the single-step path: THINK (or the catch
\* block), ACTION, OBSERVE, or OUTPUT when the loop's test fails.
runLoop(run, lreply, tret) ==
  IF run.pc = "top" /\ loopGuard(run.completed, run.iter)
  THEN LET think == thinkPhase(lreply)
       IN IF think.ok
          THEN [run EXCEPT
                  !.iter = run.iter + 1,
                  !.events = Append(run.events,
                                    ThinkEvent(think.conclusion, think.output)),
                  !.completed = IF think.conclusion = "COMPLETE" THEN TRUE
                                ELSE run.completed,
                  !.finalOutput = IF think.conclusion = "COMPLETE" THEN think.output
                                  ELSE run.finalOutput,
                  !.nextAction = think.nextAction,
                  !.pc = IF think.conclusion # "COMPLETE" /\ think.nextAction # "null"
                         THEN "action" ELSE "top"]
          ELSE IF isRecoverableError(think.message)
          THEN [run EXCEPT
                  !.iter = run.iter + 1,
                  !.events = Append(run.events, Event("ERROR", "recoverable")),
                  !.observations = Append(run.observations, "error")]
          ELSE [run EXCEPT
                  !.iter = run.iter + 1,
                  !.events = Append(run.events, Event("ERROR", "fatal")),
                  !.pc = "threw"]
  ELSE IF run.pc = "top"
  THEN [run EXCEPT
          !.events = Append(run.events,
                            Event("OUTPUT", IF run.completed THEN "completed"
                                            ELSE "incomplete")),
          !.pc = "done"]
  ELSE IF run.pc = "action"
  THEN [run EXCEPT
          !.actionResult = actionPhase(run.nextAction, tret),
          !.events = Append(run.events,
                            Event("ACTION", IF actionPhase(run.nextAction, tret).success
                                            THEN "success" ELSE "failure")),
          !.pc = "observe"]
  ELSE IF run.pc = "observe"
  THEN LET goOn == shouldContinueExecution(run.actionResult, run.observations, run.iter)
       IN [run EXCEPT
             !.events = Append(run.events,
                               Event("OBSERVE", IF goOn THEN "CONTINUE" ELSE "COMPLETE")),
             !.observations = Append(run.observations,
                                     IF run.actionResult.success THEN "success"
                                     ELSE "failure"),
             !.completed = IF goOn THEN run.completed ELSE TRUE,
             !.finalOutput = IF goOn THEN run.finalOutput
                             ELSE extractFinalOutput(run.actionResult),
             !.nextAction = "null",
             !.actionResult = NoAction,
             !.pc = "top"]
  ELSE run

PairIdle ==
  /\ runA = NewRun
  /\ runB = NewRun

\* Both runs take their next step of execute's front end; the classifier and
\* planner stubs answer both with the same reply, uuidv4 gives each its own id.
\* A stub is asked only in a step that makes its call.
PairFront ==
  /\ runA.pc \in FrontPcs \/ runB.pc \in FrontPcs
  /\ \E creply \in (IF "idle" \in {runA.pc, runB.pc}
                     THEN ClassifierReplies ELSE {NoClassifierReply}),
        preply \in (IF "planning" \in {runA.pc, runB.pc}
                     THEN PlannerReplies ELSE {NoPlannerReply}) :
       /\ runA' = runFront(runA, "uuidA", creply, preply)
       /\ runB' = runFront(runB, "uuidB", creply, preply)

\* Both runs take the next phase of their Agent Loop; the LLM stub and the
\* tool stub answer both with the same reply.
PairLoop ==
  /\ runA.pc \in LoopPcs \/ runB.pc \in LoopPcs
  /\ \E lreply \in (IF "top" \in {runA.pc, runB.pc}
                     THEN PairLLMResponses ELSE {NoResponse}),
        tret \in (IF "action" \in {runA.pc, runB.pc}
                   THEN PairToolReturns ELSE {"none"}) :
       /\ runA' = runLoop(runA, lreply, tret)
       /\ runB' = runLoop(runB, lreply, tret)

\* ===================================================================
\* Retriever
\* ===================================================================

\* JSON.stringify(e): the text of an entry.
stringify(e) == [text |-> e]

\* Queries: none, a word that is in some entries, a word that is like two kinds
\* of entries, a word like none.
Queries == {"", "ACTION", "ACTIVE", "zzz"}

\* The similarity (in tenths) fast-fuzzy gives a text for a query.
score(q, text) ==
  IF q = "ACTION" /\ text.text.mode = "ACTION" THEN 10
  ELSE IF q = "ACTIVE" /\ text.text.mode = "ACTION" THEN 6
  ELSE IF q = "ACTIVE" /\ text.text.mode = "OBSERVE" THEN 4
  ELSE 0

\* search(query, texts, { threshold }): the texts scoring at least the
\* threshold, the best first.
RECURSIVE ranked(_, _, _)
ranked(q, texts, level) ==
  IF level < threshold THEN <<>>
  ELSE SelectSeq(texts, LAMBDA t : score(q, t) = level) \o ranked(q, texts, level - 1)

search(q, texts) == ranked(q, texts, 10)

\* Variant of keywordRetrieve that returns every match.
keywordRetrieve_NoSlice(file, q, k) ==
  LET entries == readEntries(file)
      texts == [i \in 1..Len(entries) |-> stringify(entries[i])]
  IN IF Len(entries) = 0 THEN <<>> ELSE search(q, texts)

\* keywordRetrieve(sessionId, query): matches.slice(0, this.topK)
keywordRetrieve(file, q, k) ==
  LET entries == readEntries(file)
      texts == [i \in 1..Len(entries) |-> stringify(entries[i])]
      matches == IF Len(entries) = 0 THEN <<>> ELSE search(q, texts)
  IN SubSeq(matches, 1, IF Len(matches) < k THEN Len(matches) ELSE k)

\* embeddingRetrieve: a placeholder.
embeddingRetrieve(file, q) == <<>>

Strategies == {"keyword", "embedding", "other"}

\* retrieve(sessionId, query)
retrieve(file, q, strat, k) ==
  IF q = "" THEN <<>>
  ELSE IF strat = "keyword" THEN keywordRetrieve(file, q, k)
  ELSE IF strat = "embedding" THEN embeddingRetrieve(file, q)
  ELSE <<>>

RetrIdle ==
  /\ topK = defaultRagTopK
  /\ strategy = "keyword"
  /\ query = ""
  /\ retrieved = <<>>

\* new Retriever(config, sessionManager): a configured topK and strategy.
RetrInit ==
  /\ topK \in 1..defaultRagTopK
  /\ strategy \in Strategies
  /\ query = ""
  /\ retrieved = <<>>

\* The session the Retriever reads: a window that holds every entry appended,
\* or a small one.
SessRetrInit ==
  /\ sessionFile = <<>>
  /\ contextWindowSize \in {MaxWindow, defaultContextWindowSize}
  /\ sessionWritable = TRUE
  /\ appendCount = 0

Retrieve ==
  /\ \E q \in Queries :
       /\ query' = q
       /\ retrieved' = retrieve(sessionFile, q, strategy, topK)
  /\ UNCHANGED <<topK, strategy>>

\* ===================================================================
\* Two coordinators on one plan (resumePlan(planId) in two processes)
\* ===================================================================

Coordinators == {"A", "B"}

\* Both processes run without a prompt (--json).
RaceOptions == [json |-> TRUE, nonInteractive |-> FALSE]

\* Variant of the write that keeps, step by step, the record with more attempts.
writeJson_KeepNewer(file, record) ==
  [i \in 1..Len(record) |->
     IF file[i].attempts > record[i].attempts THEN file[i] ELSE record[i]]

\* fs.writeJson(planFile, plan): the file's content becomes the record written.
writeJson(file, record) == record

NoCoord == [pc |-> "idle", plan |-> <<>>, loaded |-> <<>>, index |-> 0, ran |-> {}]

RaceIdle ==
  /\ planFile = <<>>
  /\ coord = [c \in Coordinators |-> NoCoord]

\* A plan of 1..MaxSteps Steps has been created and stored; no run has begun.
RaceInit ==
  /\ planFile \in {createExecutionPlan(n) : n \in 1..MaxSteps}
  /\ coord = [c \in Coordinators |-> NoCoord]

\* resumePlan: loadPlan reads the file, executePlan picks its start index.
RaceLoad(c) ==
  /\ coord[c].pc = "idle"
  /\ coord' = [coord EXCEPT ![c] = [pc |-> "loop", plan |-> planFile,
                                    loaded |-> planFile,
                                    index |-> firstStepIndex(planFile), ran |-> {}]]
  /\ UNCHANGED planFile

\* while-loop head: a COMPLETED or SKIPPED step is passed over.
RaceSkipDone(c) ==
  /\ coord[c].pc = "loop"
  /\ coord[c].index < Len(coord[c].plan)
  /\ coord[c].plan[coord[c].index + 1].status \in {"COMPLETED", "SKIPPED"}
  /\ coord' = [coord EXCEPT ![c].index = @ + 1]
  /\ UNCHANGED planFile

\* executeStep up to the call of basic.execute.
RaceStartStep(c) ==
  /\ coord[c].pc = "loop"
  /\ coord[c].index < Len(coord[c].plan)
  /\ coord[c].plan[coord[c].index + 1].status \notin {"COMPLETED", "SKIPPED"}
  /\ coord' = [coord EXCEPT ![c].plan[coord[c].index + 1] = executeStepBegin(@),
                            ![c].ran = @ \cup {coord[c].index},
                            ![c].pc = "agent"]
  /\ UNCHANGED planFile

\* basic.execute returned: executeStep's second half, savePlan, and the branch on
\* the step result (a failed Step aborts the run: handlePlanFailure without prompt).
RaceFinishStep(c) ==
  /\ coord[c].pc = "agent"
  /\ \E basicOutput \in BasicOutputs :
       LET k == coord[c].index + 1
           step == executeStepEnd(coord[c].plan[k], basicOutput)
           res == stepResultOf(coord[c].plan[k], basicOutput)
           after == [coord[c].plan EXCEPT ![k] = step]
       IN /\ planFile' = writeJson(planFile, savePlan(after))
          /\ coord' = [coord EXCEPT
               ![c].plan = after,
               ![c].index = IF res = "success" THEN @ + 1 ELSE @,
               ![c].pc = IF res = "failed" /\ handlePlanFailure(RaceOptions, "none") = "abort"
                         THEN "returned" ELSE "loop"]

\* The Steps are exhausted: executePlan returns.
RaceReturn(c) ==
  /\ coord[c].pc = "loop"
  /\ coord[c].index >= Len(coord[c].plan)
  /\ coord' = [coord EXCEPT ![c].pc = "returned"]
  /\ UNCHANGED planFile


\* ===================================================================
\* Session ids (CoordinatorAgent.constructor, Agent.constructor, thinkPhase)
\* ===================================================================

\* A session id: none (null), the one given on the command line, or the n-th
\* one generateSessionId produced (time stamp and random suffix: always new).
NullId == <<"null", 0>>
GivenId == <<"given", 0>>
generateSessionId(n) == <<"generated", n>>
SessionIds == {GivenId} \cup {generateSessionId(n) : n \in 1..(MaxSteps + 2)}

\* sessionId || this.sessionManager.generateSessionId()
agentSessionId(sessionId, n) ==
  IF sessionId = NullId THEN generateSessionId(n + 1) ELSE sessionId

\* How many ids the construction of one Agent consumes.
generatedBy(sessionId) == IF sessionId = NullId THEN 1 ELSE 0

LoopEntry(loop, mode) == [loop |-> loop, mode |-> mode]

SidIdle ==
  /\ sidCoord = NullId
  /\ sidRoute = "single"
  /\ sidGenerated = 0
  /\ sidFallback = NullId
  /\ sidLoops = <<>>
  /\ sidFiles = [id \in SessionIds |-> <<>>]
  /\ sidRead = <<>>
  /\ sidPc = "idle"

\* new CoordinatorAgent(config, sessionId): with or without a session id; the
\* constructor builds the PlannerAgent and the fallbackAgent, each an Agent with
\* the same argument. execute then routes the task.
SidInit ==
  /\ sidCoord \in {NullId, GivenId}
  /\ sidRoute \in {"single", "multi"}
  /\ sidGenerated = 2 * generatedBy(sidCoord)
  /\ sidFallback = agentSessionId(sidCoord, generatedBy(sidCoord))
  /\ sidLoops = <<>>
  /\ sidFiles = [id \in SessionIds |-> <<>>]
  /\ sidRead = <<>>
  /\ sidPc = "idle"

\* An Agent Loop starts: the fallbackAgent's for a single-step task, or for a
\* plan Step a new Agent(this.config, this.sessionId); its START event is
\* appended to its session.
SidStartLoop ==
  /\ sidPc = "idle"
  /\ Len(sidLoops) < (IF sidRoute = "single" THEN 1 ELSE MaxSteps)
  /\ LET id == IF sidRoute = "single" THEN sidFallback
               ELSE agentSessionId(sidCoord, sidGenerated)
     IN /\ sidLoops' = Append(sidLoops, id)
        /\ sidFiles' = [sidFiles EXCEPT
                          ![id] = Append(@, LoopEntry(Len(sidLoops) + 1, "START"))]
  /\ sidGenerated' = IF sidRoute = "single" THEN sidGenerated
                     ELSE sidGenerated + generatedBy(sidCoord)
  /\ sidPc' = "think"
  /\ UNCHANGED <<sidCoord, sidRoute, sidFallback, sidRead>>

\* thinkPhase: retriever.retrieve(this.sessionId, ...) reads the loop's session,
\* then the THINK event is appended to it.
SidThink ==
  /\ sidPc = "think"
  /\ LET id == sidLoops[Len(sidLoops)]
     IN /\ sidRead' = sidFiles[id]
        /\ sidFiles' = [sidFiles EXCEPT ![id] = Append(@, LoopEntry(Len(sidLoops), "THINK"))]
  /\ sidPc' = "thought"
  /\ UNCHANGED <<sidCoord, sidRoute, sidGenerated, sidFallback, sidLoops>>

\* The THINK asked for an action: ACTION and OBSERVE are appended, and the loop
\* goes to its next iteration.
SidAct ==
  /\ sidPc = "thought"
  /\ Len(sidFiles[sidLoops[Len(sidLoops)]]) < MaxAppends
  /\ LET id == sidLoops[Len(sidLoops)]
     IN sidFiles' = [sidFiles EXCEPT
          ![id] = @ \o <<LoopEntry(Len(sidLoops), "ACTION"),
                         LoopEntry(Len(sidLoops), "OBSERVE")>>]
  /\ sidPc' = "think"
  /\ UNCHANGED <<sidCoord, sidRoute, sidGenerated, sidFallback, sidLoops, sidRead>>

\* The loop ends: its OUTPUT event is appended.
SidEndLoop ==
  /\ sidPc = "thought"
  /\ LET id == sidLoops[Len(sidLoops)]
     IN sidFiles' = [sidFiles EXCEPT ![id] = Append(@, LoopEntry(Len(sidLoops), "OUTPUT"))]
  /\ sidPc' = "idle"
  /\ UNCHANGED <<sidCoord, sidRoute, sidGenerated, sidFallback, sidLoops, sidRead>>


\* ===================================================================
\* Agent.extractJSON
\* ===================================================================

\* The characters the scan tells apart, and one that stands for all others.
Chars == {"{", "}", "\"", "\\", "a"}

\* Texts of up to MaxText characters.
Texts == UNION { [1..n -> Chars] : n \in 0..MaxText }

\* text.indexOf("{"), 1-based; 0 for -1.
indexOf(text) ==
  IF \E i \in 1..Len(text) : text[i] = "{"
  THEN CHOOSE i \in 1..Len(text) :
         text[i] = "{" /\ \A j \in 1..(i - 1) : text[j] # "{"
  ELSE 0

NullResult == [found |-> FALSE, text |-> <<>>]

\* text.substring(startIndex, i + 1)
substring(text, from, to) == [found |-> TRUE, text |-> SubSeq(text, from, to)]

NewScanner == [braceCount |-> 0, inString |-> FALSE, escapeNext |-> FALSE,
               matched |-> FALSE]

\* Variant of the loop body that counts braces inside string literals too.
scanChar_IgnoresStrings(st, char) ==
  IF st.escapeNext THEN [st EXCEPT !.escapeNext = FALSE]
  ELSE IF char = "\\" THEN [st EXCEPT !.escapeNext = TRUE]
  ELSE IF char = "{" THEN [st EXCEPT !.braceCount = @ + 1]
  ELSE IF char = "}"
       THEN [st EXCEPT !.braceCount = @ - 1, !.matched = (st.braceCount - 1 = 0)]
       ELSE st

\* The body of the for loop for one character; matched is set when the body
\* returns the substring.
scanChar(st, char) ==
  IF st.escapeNext THEN [st EXCEPT !.escapeNext = FALSE]
  ELSE IF char = "\\" THEN [st EXCEPT !.escapeNext = TRUE]
  ELSE IF char = "\"" THEN [st EXCEPT !.inString = ~st.inString]
  ELSE IF ~st.inString
       THEN IF char = "{" THEN [st EXCEPT !.braceCount = @ + 1]
            ELSE IF char = "}"
                 THEN [st EXCEPT !.braceCount = @ - 1,
                                 !.matched = (st.braceCount - 1 = 0)]
                 ELSE st
       ELSE st

JsonIdle ==
  /\ jText = <<>>
  /\ jPc = "returned"
  /\ startIndex = 0
  /\ jI = 0
  /\ scanner = NewScanner
  /\ jResult = NullResult

\* extractJSON is called with some text.
JsonInit ==
  /\ jText \in Texts
  /\ jPc = "call"
  /\ startIndex = 0
  /\ jI = 0
  /\ scanner = NewScanner
  /\ jResult = NullResult

\* const startIndex = text.indexOf("{"); if (startIndex === -1) return null;
JsonIndexOf ==
  /\ jPc = "call"
  /\ startIndex' = indexOf(jText)
  /\ jI' = indexOf(jText)
  /\ jPc' = IF indexOf(jText) = 0 THEN "returned" ELSE "scan"
  /\ UNCHANGED <<jText, scanner, jResult>>

\* One pass of the for loop.
JsonScan ==
  /\ jPc = "scan"
  /\ jI <= Len(jText)
  /\ scanner' = scanChar(scanner, jText[jI])
  /\ IF scanner'.matched
     THEN /\ jResult' = substring(jText, startIndex, jI)
          /\ jPc' = "returned"
          /\ UNCHANGED jI
     ELSE /\ jI' = jI + 1
          /\ UNCHANGED <<jResult, jPc>>
  /\ UNCHANGED <<jText, startIndex>>

\* The loop ran off the end of the text: return null.
JsonNoMatch ==
  /\ jPc = "scan"
  /\ jI > Len(jText)
  /\ jResult' = NullResult
  /\ jPc' = "returned"
  /\ UNCHANGED <<jText, startIndex, jI, scanner>>

ExtraIdle == RaceIdle /\ SidIdle /\ JsonIdle

\* ===================================================================
\* Specifications
\* ===================================================================

Init == CoordInit /\ LoopIdle /\ SessIdle /\ FrontIdle /\ SchedIdle /\ PairIdle /\ RetrIdle /\ ExtraIdle

Next ==
  \/ ExecuteMultiStep /\ UNCHANGED <<loopVars, sessVars, frontVars, schedVars, pairVars, retrVars, extraVars>>
  \/ ResumePlan /\ UNCHANGED <<loopVars, sessVars, frontVars, schedVars, pairVars, retrVars, extraVars>>
  \/ SkipDoneStep /\ UNCHANGED <<loopVars, sessVars, frontVars, schedVars, pairVars, retrVars, extraVars>>
  \/ StartStep /\ UNCHANGED <<loopVars, sessVars, frontVars, schedVars, pairVars, retrVars, extraVars>>
  \/ FinishStep /\ UNCHANGED <<loopVars, sessVars, frontVars, schedVars, pairVars, retrVars, extraVars>>
  \/ DecidePlanFailure /\ UNCHANGED <<loopVars, sessVars, frontVars, schedVars, pairVars, retrVars, extraVars>>
  \/ DecideStepError /\ UNCHANGED <<loopVars, sessVars, frontVars, schedVars, pairVars, retrVars, extraVars>>
  \/ FinishPlan /\ UNCHANGED <<loopVars, sessVars, frontVars, schedVars, pairVars, retrVars, extraVars>>
  \/ Crash /\ UNCHANGED <<loopVars, sessVars, frontVars, schedVars, pairVars, retrVars, extraVars>>

Spec == Init /\ [][Next]_vars

\* The Agent Loop alone, the coordinator at rest.
LoopNext ==
  \/ StartMode /\ UNCHANGED <<coordVars, sessVars, frontVars, schedVars, pairVars, retrVars, extraVars>>
  \/ ThinkMode /\ UNCHANGED <<coordVars, sessVars, frontVars, schedVars, pairVars, retrVars, extraVars>>
  \/ ActionMode /\ UNCHANGED <<coordVars, sessVars, frontVars, schedVars, pairVars, retrVars, extraVars>>
  \/ ObserveMode /\ UNCHANGED <<coordVars, sessVars, frontVars, schedVars, pairVars, retrVars, extraVars>>
  \/ OutputMode /\ UNCHANGED <<coordVars, sessVars, frontVars, schedVars, pairVars, retrVars, extraVars>>

LoopSpec == Init /\ [][LoopNext]_vars

\* Every awaited call (LLM, tool, session file) returns, so the loop keeps stepping.
LoopFairSpec == LoopSpec /\ WF_vars(LoopNext)

\* The Session Store alone, the coordinator and the loop at rest.
SessionInit == CoordInit /\ LoopIdle /\ SessInit /\ FrontIdle /\ SchedIdle /\ PairIdle /\ RetrIdle /\ ExtraIdle

SessionNext ==
  \/ AppendEntry /\ UNCHANGED <<coordVars, loopVars, frontVars, schedVars, pairVars, retrVars, extraVars>>
  \/ ClearSession /\ UNCHANGED <<coordVars, loopVars, frontVars, schedVars, pairVars, retrVars, extraVars>>

SessionSpec == SessionInit /\ [][SessionNext]_vars

\* The Agent Loop together with the Session Store it writes its events to.
SessionLoopInit == CoordInit /\ LoopIdle /\ SessLoopInit /\ FrontIdle /\ SchedIdle /\ PairIdle /\ RetrIdle /\ ExtraIdle

SessionLoopNext ==
  \/ StartMode /\ Persist /\ UNCHANGED <<coordVars, frontVars, schedVars, pairVars, retrVars, extraVars>>
  \/ ThinkMode /\ Persist /\ UNCHANGED <<coordVars, frontVars, schedVars, pairVars, retrVars, extraVars>>
  \/ ActionMode /\ Persist /\ UNCHANGED <<coordVars, frontVars, schedVars, pairVars, retrVars, extraVars>>
  \/ ObserveMode /\ Persist /\ UNCHANGED <<coordVars, frontVars, schedVars, pairVars, retrVars, extraVars>>
  \/ OutputMode /\ Persist /\ UNCHANGED <<coordVars, frontVars, schedVars, pairVars, retrVars, extraVars>>

SessionLoopSpec == SessionLoopInit /\ [][SessionLoopNext]_vars

\* CoordinatorAgent.execute from the task to the hand-off (executePlan or the
\* fallback Agent), the plan execution and the loop at rest.
FrontNext ==
  \/ Analyze /\ UNCHANGED <<coordVars, loopVars, schedVars, pairVars, retrVars, extraVars>>
  \/ ExecuteSingleStepTask /\ UNCHANGED <<coordVars, loopVars, schedVars, pairVars, retrVars, extraVars>>
  \/ BeginCreatePlan /\ UNCHANGED <<coordVars, loopVars, schedVars, pairVars, retrVars, extraVars>>
  \/ FinishCreatePlan /\ UNCHANGED <<coordVars, loopVars, schedVars, pairVars, retrVars, extraVars>>

FrontSpec == Init /\ [][FrontNext]_vars

\* The same with plans of earlier runs in the Plan Store.
FrontStoreInit == CoordInit /\ LoopIdle /\ SessIdle /\ FrontStoreIdle /\ SchedIdle /\ PairIdle /\ RetrIdle /\ ExtraIdle

FrontStoreSpec == FrontStoreInit /\ [][FrontNext]_vars

\* The loop with every append to the session failing; every awaited call
\* returns or throws, so the loop keeps stepping.
SessionFaultInit == CoordInit /\ LoopIdle /\ SessFaultInit /\ FrontIdle /\ SchedIdle /\ PairIdle /\ RetrIdle /\ ExtraIdle

SessionFaultSpec ==
  SessionFaultInit /\ [][SessionLoopNext]_vars /\ WF_vars(SessionLoopNext)

\* executePlan as one async control flow with the calls it has in flight.
ScheduleInit == CoordInit /\ LoopIdle /\ SessIdle /\ FrontIdle /\ SchedInit /\ PairIdle /\ RetrIdle /\ ExtraIdle

ScheduleNext ==
  \/ SchedStepCall /\ UNCHANGED <<coordVars, loopVars, sessVars, frontVars, pairVars, retrVars, extraVars>>
  \/ SchedThinkCall /\ UNCHANGED <<coordVars, loopVars, sessVars, frontVars, pairVars, retrVars, extraVars>>
  \/ SchedSettle /\ UNCHANGED <<coordVars, loopVars, sessVars, frontVars, pairVars, retrVars, extraVars>>
  \/ SchedThinkResume /\ UNCHANGED <<coordVars, loopVars, sessVars, frontVars, pairVars, retrVars, extraVars>>
  \/ SchedToolCall /\ UNCHANGED <<coordVars, loopVars, sessVars, frontVars, pairVars, retrVars, extraVars>>
  \/ SchedToolResume /\ UNCHANGED <<coordVars, loopVars, sessVars, frontVars, pairVars, retrVars, extraVars>>
  \/ SchedLoopEnd /\ UNCHANGED <<coordVars, loopVars, sessVars, frontVars, pairVars, retrVars, extraVars>>
  \/ SchedCurateCall /\ UNCHANGED <<coordVars, loopVars, sessVars, frontVars, pairVars, retrVars, extraVars>>
  \/ SchedStepReturn /\ UNCHANGED <<coordVars, loopVars, sessVars, frontVars, pairVars, retrVars, extraVars>>
  \/ SchedPlanReturn /\ UNCHANGED <<coordVars, loopVars, sessVars, frontVars, pairVars, retrVars, extraVars>>

ScheduleSpec == ScheduleInit /\ [][ScheduleNext]_vars

\* Two runs of execute side by side, given the same answers.
PairNext ==
  \/ PairFront /\ UNCHANGED <<coordVars, loopVars, sessVars, frontVars, schedVars, retrVars, extraVars>>
  \/ PairLoop /\ UNCHANGED <<coordVars, loopVars, sessVars, frontVars, schedVars, retrVars, extraVars>>

PairSpec == Init /\ [][PairNext]_vars

\* The Retriever on a session that is appended to and cleared.
RetrieverInit ==
  CoordInit /\ LoopIdle /\ SessRetrInit /\ FrontIdle /\ SchedIdle /\ PairIdle /\ RetrInit
  /\ ExtraIdle

RetrieverNext ==
  \/ AppendEntry /\ UNCHANGED <<coordVars, loopVars, frontVars, schedVars, pairVars, retrVars, extraVars>>
  \/ ClearSession /\ UNCHANGED <<coordVars, loopVars, frontVars, schedVars, pairVars, retrVars, extraVars>>
  \/ Retrieve /\ UNCHANGED <<coordVars, loopVars, sessVars, frontVars, schedVars, pairVars, extraVars>>

RetrieverSpec == RetrieverInit /\ [][RetrieverNext]_vars

\* One executePlan call runs on: every awaited call returns and a prompt is
\* answered; only an external interrupt is left to chance.
RunNext ==
  \/ SkipDoneStep /\ UNCHANGED <<loopVars, sessVars, frontVars, schedVars, pairVars, retrVars, extraVars>>
  \/ StartStep /\ UNCHANGED <<loopVars, sessVars, frontVars, schedVars, pairVars, retrVars, extraVars>>
  \/ FinishStep /\ UNCHANGED <<loopVars, sessVars, frontVars, schedVars, pairVars, retrVars, extraVars>>
  \/ DecidePlanFailure /\ UNCHANGED <<loopVars, sessVars, frontVars, schedVars, pairVars, retrVars, extraVars>>
  \/ DecideStepError /\ UNCHANGED <<loopVars, sessVars, frontVars, schedVars, pairVars, retrVars, extraVars>>
  \/ FinishPlan /\ UNCHANGED <<loopVars, sessVars, frontVars, schedVars, pairVars, retrVars, extraVars>>

PlanFairSpec == Spec /\ WF_vars(RunNext)

\* Two processes resume the same stored plan.
RaceSpecInit ==
  CoordInit /\ LoopIdle /\ SessIdle /\ FrontIdle /\ SchedIdle /\ PairIdle /\ RetrIdle
  /\ RaceInit /\ SidIdle /\ JsonIdle

RaceNext ==
  \/ \E c \in Coordinators : RaceLoad(c) /\ UNCHANGED <<coordVars, loopVars, sessVars, frontVars, schedVars, pairVars, retrVars, sidVars, jsonVars>>
  \/ \E c \in Coordinators : RaceSkipDone(c) /\ UNCHANGED <<coordVars, loopVars, sessVars, frontVars, schedVars, pairVars, retrVars, sidVars, jsonVars>>
  \/ \E c \in Coordinators : RaceStartStep(c) /\ UNCHANGED <<coordVars, loopVars, sessVars, frontVars, schedVars, pairVars, retrVars, sidVars, jsonVars>>
  \/ \E c \in Coordinators : RaceFinishStep(c) /\ UNCHANGED <<coordVars, loopVars, sessVars, frontVars, schedVars, pairVars, retrVars, sidVars, jsonVars>>
  \/ \E c \in Coordinators : RaceReturn(c) /\ UNCHANGED <<coordVars, loopVars, sessVars, frontVars, schedVars, pairVars, retrVars, sidVars, jsonVars>>

RaceSpec == RaceSpecInit /\ [][RaceNext]_vars

\* The Agent Loops of one CoordinatorAgent.execute call and their sessions.
SessionIdInit ==
  CoordInit /\ LoopIdle /\ SessIdle /\ FrontIdle /\ SchedIdle /\ PairIdle /\ RetrIdle
  /\ RaceIdle /\ SidInit /\ JsonIdle

SessionIdNext ==
  \/ SidStartLoop /\ UNCHANGED <<coordVars, loopVars, sessVars, frontVars, schedVars, pairVars, retrVars, raceVars, jsonVars>>
  \/ SidThink /\ UNCHANGED <<coordVars, loopVars, sessVars, frontVars, schedVars, pairVars, retrVars, raceVars, jsonVars>>
  \/ SidAct /\ UNCHANGED <<coordVars, loopVars, sessVars, frontVars, schedVars, pairVars, retrVars, raceVars, jsonVars>>
  \/ SidEndLoop /\ UNCHANGED <<coordVars, loopVars, sessVars, frontVars, schedVars, pairVars, retrVars, raceVars, jsonVars>>

SessionIdSpec == SessionIdInit /\ [][SessionIdNext]_vars

\* extractJSON applied to every text of up to MaxText characters.
ExtractInit ==
  CoordInit /\ LoopIdle /\ SessIdle /\ FrontIdle /\ SchedIdle /\ PairIdle /\ RetrIdle
  /\ RaceIdle /\ SidIdle /\ JsonInit

ExtractNext ==
  \/ JsonIndexOf /\ UNCHANGED <<coordVars, loopVars, sessVars, frontVars, schedVars, pairVars, retrVars, raceVars, sidVars>>
  \/ JsonScan /\ UNCHANGED <<coordVars, loopVars, sessVars, frontVars, schedVars, pairVars, retrVars, raceVars, sidVars>>
  \/ JsonNoMatch /\ UNCHANGED <<coordVars, loopVars, sessVars, frontVars, schedVars, pairVars, retrVars, raceVars, sidVars>>

ExtractSpec == ExtractInit /\ [][ExtractNext]_vars

\* ===================================================================
\* Properties
\* ===================================================================

Running == cpc \in {"loop", "agent", "promptFailure", "promptError"}

StatusSeq(steps) == [i \in 1..Len(steps) |-> steps[i].status]

CountIn(seq, x) == Cardinality({i \in 1..Len(seq) : seq[i] = x})

CountMode(tr, m) == Cardinality({i \in 1..Len(tr) : tr[i].mode = m})

\* ------------------------------------------------------------------- C1
LegalEdges == { <<"PENDING", "EXECUTING">>, <<"EXECUTING", "COMPLETED">>,
                <<"EXECUTING", "FAILED">>, <<"EXECUTING", "SKIPPED">>,
                <<"FAILED", "PENDING">> }

\* C1: while a run of execute or resumePlan is in progress, every change of a
\* Step's status is PENDING->EXECUTING, EXECUTING->COMPLETED, EXECUTING->FAILED,
\* EXECUTING->SKIPPED or FAILED->PENDING.
C1_OnlyLegalStatusEdges ==
  [][ (Running /\ Len(plan') = Len(plan)) =>
        \A i \in 1..Len(plan) :
          plan'[i].status # plan[i].status =>
            <<plan[i].status, plan'[i].status>> \in LegalEdges ]_vars

\* ------------------------------------------------------------------- C2
\* C2: resuming a stored Plan with statuses [COMPLETED, FAILED, PENDING], the first
\* Step executeStep is invoked on is the FAILED one (index 1): the FAILED Step is
\* re-executed before the PENDING one and the COMPLETED one is not re-run.
C2_ResumeRunsFailedThenPending ==
  (/\ entry = "resume"
   /\ cpc = "agent"
   /\ Len(execLog) = 1
   /\ StatusSeq(store) = <<"COMPLETED", "FAILED", "PENDING">>)
  => execLog[1] = 1

\* ------------------------------------------------------------------- C3
\* C3: step.attempts never exceeds max_attempts, in memory and in the Plan Store,
\* after any sequence of execute and resumePlan runs.
C3_AttemptsBounded ==
  /\ \A i \in 1..Len(plan) : plan[i].attempts <= max_attempts
  /\ \A i \in 1..Len(store) : store[i].attempts <= max_attempts

\* ------------------------------------------------------------------- C4
\* C4: at every step boundary and at return the stored Plan equals the in-memory
\* Plan (stated for the runs in which every savePlan call succeeded).
C4_StoreEqualsPlan ==
  (saveFaults = 0 /\ cpc \in {"loop", "returned"}) => store = plan

\* ------------------------------------------------------------------- C5
\* C5: one Agent Loop invocation runs at most maxIterations iterations, with at
\* most maxIterations THINK events, and then terminates: it emits OUTPUT or
\* raises a fatal error.
C5_BoundedLoopTerminates ==
  /\ [](/\ currentIteration <= maxIterations
        /\ CountMode(trace, "THINK") <= maxIterations)
  /\ <>(\/ lpc = "done" /\ trace[Len(trace)].mode = "OUTPUT"
        \/ lpc = "threw" /\ trace[Len(trace)] = Event("ERROR", "fatal"))

\* A loop that used all maxIterations iterations, each with a THINK event, and
\* then emitted OUTPUT.
C5_Witness ==
  /\ lpc = "done"
  /\ output.iterations = maxIterations
  /\ CountMode(trace, "THINK") = maxIterations

\* ------------------------------------------------------------------- C6
\* C6 as stated: with an LLM whose every THINK concludes CONTINUE, the loop's
\* OUTPUT event has completed = false after at most maxIterations iterations.
C6_AlwaysContinueIncomplete ==
  (lpc = "done" /\ stub = "continue") =>
    (output.iterations <= maxIterations /\ output.completed = FALSE)

\* C6, amended: with an LLM whose every THINK concludes CONTINUE the loop emits
\* its OUTPUT event after at most maxIterations iterations; completed is true
\* exactly when an OBSERVE reported COMPLETE, which is then the loop's last phase
\* before OUTPUT, and when no tool was ever invoked completed is false with
\* iterations = maxIterations.
C6_AlwaysContinueHalts ==
  /\ []((stub = "continue" /\ completed /\ lpc # "done") =>
          trace[Len(trace)] = Event("OBSERVE", "COMPLETE"))
  /\ []((lpc = "done" /\ stub = "continue") =>
          /\ output.iterations <= maxIterations
          /\ output.completed = (trace[Len(trace) - 1] = Event("OBSERVE", "COMPLETE"))
          /\ CountMode(trace, "ACTION") = 0 =>
               (output.completed = FALSE /\ output.iterations = maxIterations))
  /\ <>(stub # "continue" \/ lpc = "done")

\* An always-CONTINUE LLM that never names a tool: OUTPUT after maxIterations
\* iterations, completed = false.
C6_Witness ==
  /\ lpc = "done"
  /\ stub = "continue"
  /\ CountMode(trace, "ACTION") = 0
  /\ output.completed = FALSE
  /\ output.iterations = maxIterations

\* ------------------------------------------------------------------- C7
\* C7: without a prompt (json or nonInteractive), once a Step has failed with
\* attempts = max_attempts the run is aborted, executeStep is not invoked again
\* in that run, and the run returns with Plan status ABORTED.
C7_NonInteractiveAbort ==
  (nonInteractive(options) /\ exhausted # -1 /\ (Running \/ cpc = "returned")) =>
    /\ aborted
    /\ cpc \in {"loop", "returned"}
    /\ execLog[Len(execLog)] = exhausted
    /\ plan[exhausted + 1].status = "FAILED"
    /\ cpc = "returned" =>
         /\ planStatus = "ABORTED"
         /\ ~resultSuccess
         /\ entry = "execute" => summaryStatus = "ABORTED"

\* A json or nonInteractive run that returned ABORTED after a Step exhausted its
\* attempts while a later Step was still waiting.
C7_Witness ==
  /\ cpc = "returned"
  /\ nonInteractive(options)
  /\ exhausted # -1
  /\ exhausted + 1 < Len(plan)
  /\ plan[exhausted + 1].attempts = max_attempts
  /\ planStatus = "ABORTED"

\* ------------------------------------------------------------------- C8
\* C8: in an execute run that has returned, every Step whose scoped Agent Loop
\* succeeded (after fewer than max_attempts failed attempts) is COMPLETED with
\* attempts = failures + 1, the Step after it was executed, and when every
\* Step's loop succeeded the summary status is COMPLETED_SUCCESSFULLY.
C8_RetryThenSuccess ==
  (cpc = "returned" /\ entry = "execute") =>
    /\ \A i \in 1..Len(plan) :
         (i - 1) \in loopOK =>
           /\ plan[i].status = "COMPLETED"
           /\ plan[i].attempts = CountIn(execLog, i - 1)
           /\ i < Len(plan) => CountIn(execLog, i) >= 1
    /\ (\A i \in 1..Len(plan) : (i - 1) \in loopOK) =>
         summaryStatus = "COMPLETED_SUCCESSFULLY"

\* ------------------------------------------------------------------- C9
\* C9: executeStep is never invoked on a Step that has been COMPLETED or SKIPPED,
\* and such a Step keeps that status (stated for the runs in which every
\* savePlan call succeeded).
C9_DoneStepsNotRerun ==
  saveFaults = 0 =>
    /\ cpc = "agent" => (currentStepIndex + 1) \notin settled
    /\ Running => \A i \in settled : plan[i].status \in {"COMPLETED", "SKIPPED"}

\* ------------------------------------------------------------------ C10
\* The status reported when a run ends: the summary of execute's OUTPUT event,
\* the final EXECUTE_PLAN event's status for resumePlan.
ReportedStatus == IF entry = "execute" THEN summaryStatus ELSE planStatus

\* C10: when a run ends the reported status is ABORTED if it was aborted, else
\* COMPLETED_WITH_FAILURES if a Step is FAILED, else COMPLETED_SUCCESSFULLY, for
\* execute and for resumePlan.
C10_AggregateStatus ==
  (cpc = "returned" /\ Len(plan) >= 1) =>
    ReportedStatus = (IF aborted THEN "ABORTED"
                      ELSE IF \E i \in 1..Len(plan) : plan[i].status = "FAILED"
                           THEN "COMPLETED_WITH_FAILURES"
                      ELSE "COMPLETED_SUCCESSFULLY")

ThinkCompleted ==
  lpc = "top" /\ llmResponse.kind = "json" /\ llmResponse.conclusion = "COMPLETE"

C15_ParseFailureFallsBack ==
  llmResponse.kind \in {"nojson", "badjson"} =>
    /\ thinkResult.ok
    /\ thinkResult.conclusion = "CONTINUE"
    /\ thinkResult.confidence = "low"
    /\ trace[Len(trace)] = ThinkEvent("CONTINUE", "null")
    /\ lpc = "top"

\* ------------------------------------------------------------------ C16
\* The tool call of the running iteration failed: the tool is unknown, it threw,
\* or it returned success: false.
ToolFailed ==
  /\ lpc = "observe"
  /\ \/ nextAction \notin RegisteredTools
     \/ toolReturn \in {"throws", "successFalse"}

\* C16: a tool that is unknown, throws or returns success: false never makes the
\* loop throw: actionPhase returns an ACTION event with success = false, that
\* event is emitted, and the loop's next phase is OBSERVE.
C16_ToolFailureContained ==
  /\ [](ToolFailed =>
          /\ ~actionResult.success
          /\ trace[Len(trace)] = Event("ACTION", "failure"))
  /\ [][lpc = "action" => lpc' = "observe"]_vars
  /\ [][ToolFailed =>
          /\ trace'[Len(trace')].mode = "OBSERVE"
          /\ Len(trace') = Len(trace) + 1
          /\ observations' = Append(observations, "failure")
          /\ lpc' = "top"]_vars

\* Three failing tool calls have been observed, each as a failed ACTION event
\* followed by OBSERVE, no ERROR event was emitted, and the loop has gone on to
\* its OUTPUT.
C16_Witness ==
  /\ lpc = "done"
  /\ observations = <<"failure", "failure", "failure">>
  /\ CountMode(trace, "ERROR") = 0
  /\ CountIn(trace, Event("ACTION", "failure")) = 3

\* ------------------------------------------------------------------ C17
\* The running iteration raised an error (thinkPhase threw).
IterationFailed == ~thinkResult.ok

\* C17: an error raised inside an iteration always produces an ERROR event; the
\* loop goes on to the next iteration, the error folded into the observations,
\* exactly when the error's message holds a known recoverable substring;
\* otherwise no further THINK, ACTION or OUTPUT follows and the caller gets the
\* failure.
C17_ErrorsRecoverableOrFatal ==
  /\ [](IterationFailed =>
          /\ trace[Len(trace)].mode = "ERROR"
          /\ IF thinkResult.message \in recoverableErrors
             THEN /\ trace[Len(trace)].tag = "recoverable"
                  /\ lpc = "top"
                  /\ Len(observations) >= 1
                  /\ observations[Len(observations)] = "error"
                  /\ ENABLED ThinkMode <=> currentIteration < maxIterations
             ELSE /\ trace[Len(trace)].tag = "fatal"
                  /\ lpc = "threw"
                  /\ output.mode = "ERROR"
                  /\ CountMode(trace, "OUTPUT") = 0)
  /\ [](lpc = "threw" => (IterationFailed /\ ~ENABLED LoopNext))
  /\ [][Len(trace') = Len(trace) + 1 /\ trace'[Len(trace')].mode = "ERROR"
          => ~thinkResult'.ok]_vars

\* A recoverable error was folded into the observations and the loop went on;
\* a later iteration then raised a fatal error, which ended the loop.
C17_Witness ==
  /\ lpc = "threw"
  /\ CountIn(observations, "error") >= 1
  /\ CountIn(trace, Event("ERROR", "recoverable")) >= 1
  /\ trace[Len(trace)] = Event("ERROR", "fatal")
  /\ currentIteration >= 2

\* ------------------------------------------------------------------ C12
SessionLog == readEntries(sessionFile)

IsSuffix(log, events) ==
  /\ Len(log) <= Len(events)
  /\ log = SubSeq(events, Len(events) - Len(log) + 1, Len(events))

C13_CoordinatorEventsLogged ==
  (sessionWritable /\ Len(emitted) < contextWindowSize) =>
    \A i \in 1..Len(emitted) :
      \E j \in 1..Len(SessionLog) : SessionLog[j] = emitted[i]

\* ------------------------------------------------------------------ C18
\* The classifier's LLM call failed or its reply could not be parsed.
ClassifierFailed == classifierReply.kind \in {"throws", "nojson", "badjson"}

\* C18: when the classifier's LLM call fails or its reply cannot be parsed,
\* detectMultiStepTask returns isMultiStep false, complexity low, estimatedSteps
\* 1, and execute goes down the single-step path; nothing is thrown.
C18_ClassifierFailureDowngrades ==
  ClassifierFailed =>
    /\ analysis.isMultiStep = FALSE
    /\ analysis.complexity = "low"
    /\ analysis.estimatedSteps = 1
    /\ fpc \in {"single", "agent"}
    /\ emitted[1] = Event("ANALYZE", "single")
    /\ CountMode(emitted, "ERROR") = 0
    /\ CountMode(emitted, "PLAN") = 0

\* The classifier's reply was not valid JSON and the fallback Agent was started.
C18_Witness ==
  /\ classifierReply.kind = "badjson"
  /\ fpc = "agent"
  /\ emitted = <<Event("ANALYZE", "single"), Event("SINGLE_STEP", "EXECUTING")>>

\* ------------------------------------------------------------------ C19
\* The planner's reply has no JSON object, or one without a steps array.
PlannerReplyUnusable == plannerReply.kind \in {"nojson", "noSteps", "stepsNotArray"}

\* C19: when the planner's reply has no extractable JSON object or lacks a steps
\* array, createExecutionPlan emits PLAN FAILED and throws; no Plan is written,
\* no empty Plan is returned, and executePlan is never reached.
C19_PlanningFailureIsFatal ==
  PlannerReplyUnusable =>
    /\ fpc = "threw"
    /\ CountIn(emitted, Event("PLAN", "FAILED")) = 1
    /\ CountIn(emitted, Event("PLAN", "CREATED")) = 0
    /\ createdPlan = NoPlan
    /\ \A id \in PlanIds : planStore[id] = NoFile

\* A reply whose JSON object has no steps field ended the run with PLAN FAILED.
C19_Witness ==
  /\ plannerReply.kind = "noSteps"
  /\ fpc = "threw"
  /\ emitted[Len(emitted) - 1] = Event("PLAN", "FAILED")

\* ------------------------------------------------------------------ C20
\* C20: every Step of a Plan that createExecutionPlan returned has status
\* PENDING, attempts 0 and max_attempts 3, whatever the LLM supplied, and the
\* Plan Store holds that Plan under its plan_id.
C20_ReturnedPlanNormalisedAndStored ==
  createdPlan.exists =>
    /\ Len(createdPlan.steps) = Len(plannerReply.steps)
    /\ \A i \in 1..Len(createdPlan.steps) :
         /\ createdPlan.steps[i].status = "PENDING"
         /\ createdPlan.steps[i].attempts = 0
         /\ createdPlan.steps[i].max_attempts = 3
    /\ createdPlan.plan_id \in PlanIds
    /\ planStore[createdPlan.plan_id] = [exists |-> TRUE, steps |-> createdPlan.steps]

\* A Plan was returned for a reply whose steps claimed to be COMPLETED after 2
\* attempts of 5.
C20_Witness ==
  /\ createdPlan.exists
  /\ fpc = "executePlan"
  /\ Len(plannerReply.steps) = MaxRawSteps
  /\ \A i \in 1..Len(plannerReply.steps) :
       /\ plannerReply.steps[i].status = "COMPLETED"
       /\ plannerReply.steps[i].attempts = 2
       /\ plannerReply.steps[i].max_attempts = 5

\* ------------------------------------------------------------------ C21
\* C21: a Plan the Planner creates gets a plan_id that no Plan in the Plan Store
\* has, so creating a Plan never overwrites an existing Plan record.
C21_CreateNeverOverwrites ==
  [][\A id \in PlanIds : planStore[id].exists => planStore'[id] = planStore[id]]_vars

\* ------------------------------------------------------------------ C22
\* C22: when every appendEntry call throws, the loop is not aborted by it: each
\* phase still emits its event and the next phase follows, the session stays as
\* it was, the loop is thrown out of only by a fatal error of an iteration, and
\* it ends as it does with a working session, with its OUTPUT event (or that
\* fatal ERROR).
C22_PersistFailureSwallowed ==
  /\ [](~sessionWritable =>
          /\ sessionFile = <<>>
          /\ appendCount = Len(trace)
          /\ lpc \notin {"done", "threw"} => ENABLED SessionLoopNext
          /\ lpc = "threw" =>
               (IterationFailed /\ thinkResult.message \notin recoverableErrors))
  /\ [][~sessionWritable => Len(trace') = Len(trace) + 1]_vars
  /\ <>(\/ lpc = "done" /\ trace[Len(trace)].mode = "OUTPUT"
        \/ lpc = "threw" /\ trace[Len(trace)] = Event("ERROR", "fatal"))

\* With every append failing, a loop ran through tool calls to its OUTPUT event.
C22_Witness ==
  /\ ~sessionWritable
  /\ lpc = "done"
  /\ appendCount = Len(trace)
  /\ appendCount >= 5
  /\ CountMode(trace, "OBSERVE") >= 1
  /\ trace[Len(trace)].mode = "OUTPUT"
  /\ sessionFile = <<>>

\* ------------------------------------------------------------------ C23
\* C23: a savePlan call that throws is only logged: the Step's outcome is still
\* applied (a Step whose Agent Loop succeeded is COMPLETED and the index
\* advances, a re-armed Step is retried) and the run goes on with the following
\* Steps, without prompt and without abort.
C23_SaveFailureOnlyLogged ==
  [][saveFaults' > saveFaults =>
       /\ cpc' = "loop"
       /\ ~aborted'
       /\ \E basicOutput \in BasicOutputs :
            /\ isStepSuccess(basicOutput) = (currentStepIndex \in loopOK')
            /\ plan'[currentStepIndex + 1] =
                 executeStepEnd(plan[currentStepIndex + 1], basicOutput)
       /\ currentStepIndex \in loopOK' => currentStepIndex' = currentStepIndex + 1
       /\ plan'[currentStepIndex + 1].status = "PENDING" =>
            currentStepIndex' = currentStepIndex]_vars

\* ------------------------------------------------------------------ C24
\* C24: in one Coordinator run at most one Step is EXECUTING and at most one LLM
\* call or tool invocation is in flight at any time, and that call belongs to
\* the running Step's current iteration: Steps, iterations and calls never
\* overlap.
C24_NothingOverlaps ==
  /\ Cardinality(executing) <= 1
  /\ Cardinality(inFlight) <= 1
  /\ executing \subseteq {sStep}
  /\ \A call \in inFlight :
       /\ call.step \in executing
       /\ call.iter = sIter

\* The second Step's loop is in a later iteration with its tool call in flight.
C24_Witness ==
  /\ executing = {1}
  /\ sIter >= 2
  /\ inFlight = {Call(1, sIter, "tool")}

MaskedEvents(run) ==
  [i \in 1..Len(run.events) |->
     IF run.generated /\ run.events[i].mode \in {"PLAN", "EXECUTE_PLAN"}
        /\ run.events[i].out = run.planId
     THEN [run.events[i] EXCEPT !.out = "generated"]
     ELSE run.events[i]]

MatchingTexts(q) ==
  LET entries == readEntries(sessionFile)
  IN {i \in 1..Len(entries) : score(q, stringify(entries[i])) >= threshold}

C27_RetrySameStep ==
  [][(cpc = "agent" /\ cpc' # "crashed" /\ currentStepIndex \notin loopOK') =>
       LET k == currentStepIndex + 1
       IN /\ plan[k].attempts < max_attempts =>
               /\ plan'[k].status = "PENDING"
               /\ store' = plan'
               /\ currentStepIndex' = currentStepIndex
               /\ cpc' = "loop"
               /\ ~aborted'
          /\ plan'[k].status = "PENDING" => plan[k].attempts < max_attempts]_vars

\* ------------------------------------------------------------------ C28
AllTerminal(steps) ==
  /\ Len(steps) > 0
  /\ \A i \in 1..Len(steps) : steps[i].status \in {"COMPLETED", "FAILED", "SKIPPED"}

\* A resumePlan call may begin, or has begun and has not yet executed a Step.
ResumeCallOn(steps) ==
  /\ stored
  /\ store = steps
  /\ \/ cpc \in {"returned", "crashed"}
     \/ cpc = "loop" /\ entry = "resume" /\ execLog = <<>>

\* C28: once every Step of the stored Plan is COMPLETED, FAILED or SKIPPED, a
\* later resumePlan call changes no field of any Step, in the Plan Store or in
\* the plan it loaded, and invokes executeStep on none of them.
C28_TerminalPlanImmutable ==
  [][(AllTerminal(store) /\ ResumeCallOn(store) /\ cpc' # "crashed") =>
       /\ store' = store
       /\ plan' \in {plan, store}
       /\ execLog' \in {execLog, <<>>}]_vars

\* ------------------------------------------------------------------ C29
\* C29: when executePlan returns with aborted = false, every Step of the plan is
\* COMPLETED, FAILED or SKIPPED: none is left PENDING or EXECUTING, whatever
\* failure decisions were taken.
C29_ReturnedPlanTerminal ==
  (cpc = "returned" /\ ~aborted) =>
    \A i \in 1..Len(plan) : plan[i].status \in {"COMPLETED", "FAILED", "SKIPPED"}

\* A run returned unaborted after a savePlan failure answered with "skip" and a
\* Step that used up its attempts: the plan holds a FAILED Step and ran past it.
C29_Witness ==
  /\ cpc = "returned"
  /\ ~aborted
  /\ planStatus = "COMPLETED"
  /\ Len(plan) >= 2
  /\ saveFaults >= 1
  /\ \E i \in 1..Len(plan) : plan[i].status = "FAILED" /\ plan[i].attempts < max_attempts
  /\ \E i \in 1..Len(plan) : plan[i].status \in {"SKIPPED", "COMPLETED"}

\* ------------------------------------------------------------------ C30
\* The observations of this loop that record a failure: failed actions and the
\* recoverable errors folded into the context.
FailedObservations(obs) == Len(SelectSeq(obs, LAMBDA o : o # "success"))

\* C30: OBSERVE's status follows the policy: after a failed action it is
\* CONTINUE exactly when fewer than 3 failed observations have accumulated in
\* this loop; after listDirectory or readFile reported success it is COMPLETE;
\* otherwise it is CONTINUE exactly while the iteration is below 3.
C30_ObservePolicy ==
  [][(lpc = "observe" /\ lpc' = "top") =>
       LET status == trace'[Len(trace')].tag
       IN IF ~actionResult.success
          THEN (status = "CONTINUE") = (FailedObservations(observations) < 3)
          ELSE IF /\ actionResult.tool \in {"listDirectory", "readFile"}
                  /\ actionResult.result = "successTrue"
               THEN status = "COMPLETE"
               ELSE (status = "CONTINUE") = (currentIteration < 3)]_vars

\* ------------------------------------------------------------------ C31
\* The successor relation of START -> THINK -> {COMPLETE -> OUTPUT} |
\* {CONTINUE -> ACTION -> OBSERVE -> {COMPLETE -> OUTPUT} | {CONTINUE -> THINK}}.
\* ERROR events are outside the grammar, and an OBSERVE that reports CONTINUE in
\* the last permitted iteration is followed by OUTPUT.
GrammarFollows(a, b) ==
  \/ a.mode = "ERROR" \/ b.mode = "ERROR"
  \/ a.mode = "START" /\ b.mode = "THINK"
  \/ a.mode = "THINK" /\ a.tag = "COMPLETE" /\ b.mode = "OUTPUT"
  \/ a.mode = "THINK" /\ a.tag = "CONTINUE" /\ b.mode = "ACTION"
  \/ a.mode = "ACTION" /\ b.mode = "OBSERVE"
  \/ a.mode = "OBSERVE" /\ a.tag = "COMPLETE" /\ b.mode = "OUTPUT"
  \/ a.mode = "OBSERVE" /\ a.tag = "CONTINUE" /\ b.mode \in {"THINK", "OUTPUT"}

\* C31: the emitted trace of an Agent Loop follows the grammar; in particular a
\* THINK that concludes CONTINUE is followed by an ACTION and then an OBSERVE,
\* never directly by another THINK or by OUTPUT.
C31_TraceGrammar ==
  /\ \A i \in 1..(Len(trace) - 1) : GrammarFollows(trace[i], trace[i + 1])
  /\ \A i \in 1..(Len(trace) - 2) :
       (trace[i].mode = "THINK" /\ trace[i].tag = "CONTINUE") =>
         (trace[i + 1].mode = "ACTION" /\ trace[i + 2].mode = "OBSERVE")

\* ------------------------------------------------------------------ C32
\* C32: the Agent Loop the coordinator runs for one Step has an iteration cap
\* strictly below the whole-task maxIterations: a Step attempt never reaches
\* maxIterations THINK phases.
C32_StepLoopSmallerCap ==
  \A call \in inFlight : call.kind = "think" => call.iter < maxIterations

\* ------------------------------------------------------------------ C33
\* C33: the Plan Store has no locking: a coordinator's savePlan replaces the
\* whole plan file by its own copy, so every Step it has not executed itself is
\* written back with the value it loaded, whatever the other coordinator has
\* stored since; a Step update of the other coordinator can be lost this way.
C33_StaleCopyOverwrites ==
  [][\A c \in Coordinators :
       (coord[c].pc = "agent" /\ coord'[c].pc # "agent") =>
         /\ planFile' = coord'[c].plan
         /\ \A i \in 1..Len(planFile') :
              (i - 1) \notin coord[c].ran => planFile'[i] = coord[c].loaded[i]]_vars

\* A lost update: A executed a Step to COMPLETED and saved it, and the file now
\* shows that Step as never attempted, written back by B, which never ran it.
C33_Witness ==
  \E i \in 1..Len(planFile) :
    /\ (i - 1) \in coord["A"].ran
    /\ coord["A"].plan[i].status = "COMPLETED"
    /\ coord["A"].pc = "returned"
    /\ (i - 1) \notin coord["B"].ran
    /\ coord["B"].ran # {}
    /\ planFile = coord["B"].plan
    /\ planFile[i] = NewStep

\* ------------------------------------------------------------------ C34
\* The last ACTION event of the trace reports success.
LastActionSucceeded ==
  \E i \in 1..Len(trace) :
    /\ trace[i] = Event("ACTION", "success")
    /\ \A j \in (i + 1)..Len(trace) : trace[j].mode # "ACTION"

\* C34: an Agent Loop reports completed = true only if a THINK concluded COMPLETE
\* or its last tool action succeeded; so an attempt in which every tool action
\* failed (and no THINK concluded COMPLETE) never returns the output for which
\* the coordinator marks the Step COMPLETED.
C34_CompletedNeedsSuccess ==
  (lpc = "done" /\ output.completed) =>
    \/ \E i \in 1..Len(trace) : trace[i].mode = "THINK" /\ trace[i].tag = "COMPLETE"
    \/ LastActionSucceeded

\* ------------------------------------------------------------------ C35
\* C35: executePlan always terminates: within one call no Step is attempted more
\* than max_attempts times, the number of attempts is at most max_attempts times
\* the number of Steps, and the call returns (unless the process is interrupted).
C35_PlanTerminates ==
  /\ [](\A i \in 0..(Len(plan) - 1) : CountIn(execLog, i) <= max_attempts)
  /\ [](Len(execLog) <= max_attempts * Len(plan))
  /\ [](Running => <>(cpc \in {"returned", "crashed"}))

\* A call that attempted each of its Steps max_attempts times and returned.
C35_Witness ==
  /\ cpc = "returned"
  /\ Len(plan) >= 2
  /\ Len(execLog) = max_attempts * Len(plan)
  /\ \A i \in 1..Len(plan) : plan[i].attempts = max_attempts

\* ------------------------------------------------------------------ C36
\* C36: no plan record written to the Plan Store holds an EXECUTING Step: the
\* coordinator writes only after the attempt ended in COMPLETED, PENDING or
\* FAILED, and neither the start of an attempt nor a crash in the middle of it
\* changes the stored plan, so the Step's stored status and attempts stay as
\* they were before the attempt.
C36_NoExecutingStored ==
  /\ [](\A i \in 1..Len(store) : store[i].status # "EXECUTING")
  /\ [][(cpc' = "agent" \/ (cpc = "agent" /\ cpc' = "crashed")) => store' = store]_vars
  /\ [][store' # store =>
          /\ cpc \in {"agent", "idle"}
          /\ cpc = "agent" =>
               store'[currentStepIndex + 1].status \in {"COMPLETED", "PENDING", "FAILED"}]_vars

\* In the middle of the second attempt of a Step: the in-memory Step is
\* EXECUTING with two attempts, the store still shows it as the first attempt
\* left it, PENDING with one attempt, which is what a crash now would leave.
C36_Witness ==
  /\ cpc = "agent"
  /\ saveFaults = 0
  /\ Len(plan) >= 2
  /\ currentStepIndex = 1
  /\ plan[2].status = "EXECUTING"
  /\ plan[2].attempts = 2
  /\ store[1].status = "COMPLETED"
  /\ store[2].status = "PENDING"
  /\ store[2].attempts = 1

\* ------------------------------------------------------------------ C37
\* C37: all Agent Loops started by one CoordinatorAgent.execute call use one and
\* the same session, so the retrieval of a later Step's THINK reads a session
\* that holds the events of the earlier Steps; also when the coordinator was
\* constructed without a session id.
C37_OneSessionPerCall ==
  /\ \A i, j \in 1..Len(sidLoops) : sidLoops[i] = sidLoops[j]
  /\ sidPc = "thought" =>
       \A n \in 1..(Len(sidLoops) - 1) :
         \E k \in 1..Len(sidRead) : sidRead[k] = LoopEntry(n, "START")

\* ------------------------------------------------------------------ C38
MinOf(a, b) == IF a < b THEN a ELSE b

\* C38: after n appendEntry calls on an initially empty session with a window of
\* M > 0, readEntries returns exactly the last min(n, M) appended entries in
\* insertion order, the entry just appended being the last. Stated call by
\* call: if the log holds the last min(n, M) entries before the (n+1)-th call,
\* it holds the last min(n+1, M) of them, the new one included, after it.
C38_LastEntriesRetained ==
  [][(appendCount' = appendCount + 1
      /\ Len(readEntries(sessionFile)) = MinOf(appendCount, contextWindowSize)) =>
       \E mode \in SessionPayloads :
         LET all == Append(readEntries(sessionFile), SessionEntry(appendCount + 1, mode))
             k == MinOf(appendCount + 1, contextWindowSize)
         IN readEntries(sessionFile') = SubSeq(all, Len(all) - k + 1, Len(all))]_vars

\* ------------------------------------------------------------------ C39
\* C39: a Plan returned by createExecutionPlan has at least one Step, so an
\* execute call on a task classified multi-step never reports
\* COMPLETED_SUCCESSFULLY without having executed a Step.
C39_PlanHasSteps ==
  /\ stored => Len(store) >= 1
  /\ (cpc = "returned" /\ entry = "execute"
      /\ summaryStatus = "COMPLETED_SUCCESSFULLY") => Len(execLog) >= 1

\* ------------------------------------------------------------------ C40
\* Position i of text, scanning from s, follows a backslash that is itself not
\* escaped.
RECURSIVE EscapedAt(_, _, _)
EscapedAt(text, s, i) ==
  i > s /\ text[i - 1] = "\\" /\ ~EscapedAt(text, s, i - 1)

\* Position i lies inside a string literal: an odd number of unescaped quotes
\* precedes it.
InStringAt(text, s, i) ==
  Cardinality({j \in s..(i - 1) : text[j] = "\"" /\ ~EscapedAt(text, s, j)}) % 2 = 1

\* The braces that count: unescaped and outside string literals.
CountedAt(text, s, i, c) ==
  text[i] = c /\ ~EscapedAt(text, s, i) /\ ~InStringAt(text, s, i)

DepthAt(text, s, i) ==
  Cardinality({j \in s..i : CountedAt(text, s, j, "{")})
    - Cardinality({j \in s..i : CountedAt(text, s, j, "}")})

\* The text from its first "{" to the "}" that balances it, if there is one.
BalancedObject(text) ==
  LET opens == {i \in 1..Len(text) : text[i] = "{"}
      s == CHOOSE i \in opens : \A j \in opens : i <= j
      closes == {e \in s..Len(text) :
                   CountedAt(text, s, e, "}") /\ DepthAt(text, s, e) = 0}
      e == CHOOSE i \in closes : \A j \in closes : i <= j
  IN IF opens = {} \/ closes = {}
     THEN [found |-> FALSE, text |-> <<>>]
     ELSE [found |-> TRUE, text |-> [k \in 1..(e - s + 1) |-> text[s + k - 1]]]

\* C40: extractJSON(text) returns the substring from the first "{" of text to
\* the "}" that balances it, counting braces only outside string literals and
\* honouring backslash escapes, and null when text has no "{" or no balanced
\* object; on any text the scan stays inside the text and ends with one of the
\* two.
C40_ExtractsBalancedObject ==
  /\ jPc = "returned" => jResult = BalancedObject(jText)
  /\ jPc = "scan" =>
       /\ jI \in startIndex..(Len(jText) + 1)
       /\ scanner.braceCount >= 0
       /\ jI > startIndex => scanner.braceCount >= 1

\* The object {"}"} was returned whole: the "}" inside the string literal did
\* not close it.
C40_Witness ==
  /\ jPc = "returned"
  /\ jText = <<"{", "\"", "}", "\"", "}">>
  /\ jResult = [found |-> TRUE, text |-> jText]

====
